---- MODULE Spec2Model ----
(***************************************************************************)
(* A model of the token scanner's core: the configuration lookup, the      *)
(* Scoring Engine, the Pattern Detector and the Orchestrator's per-token   *)
(* pipeline with its alert admission.                                      *)
(*                                                                         *)
(* Units.  Python floats are modelled by scaled integers:                  *)
(*   component scores (0..1)        in thousandths   (1.0  = 1000)         *)
(*   scores on the 0..100 scale     in 1/100000      (70.0 = 7000000)      *)
(*   rugcheck overall_score (0..10) in tenths        (8.5  = 85)           *)
(*   ml_confidence and the weights  in hundredths    (0.65 = 65)           *)
(*   percentages, dollars, seconds  as integers                            *)
(***************************************************************************)
EXTENDS Integers, Sequences, FiniteSets, TLC

(***************************************************************************)
(* Python values that may be None, a number or a dict.                     *)
(***************************************************************************)
EmptyMap == [k \in {} |-> 0]
PyNone == [t |-> "none", v |-> 0, m |-> EmptyMap]
PyRaise == [t |-> "raise", v |-> 0, m |-> EmptyMap]
PyNum(n) == [t |-> "num", v |-> n, m |-> EmptyMap]
PyDict(f) == [t |-> "dict", v |-> 0, m |-> f]

\* bool(x) of a configuration value: None, 0 and {} are false.
Truthy(x) ==
    CASE x.t = "none" -> FALSE
      [] x.t = "num" -> x.v # 0
      [] x.t = "dict" -> DOMAIN x.m # {}
      [] OTHER -> FALSE

\* A positional argument that is a dict literal: dict.get({}) raises TypeError.
UnhashableKey == "{}"

\* Config.get_nested(*keys, default=None).  Every caller in the orchestrator
\* passes its intended default positionally, so it arrives as the last key and
\* `default` stays None.
RECURSIVE get_nested(_, _)
get_nested(value, keys) ==
    IF keys = <<>>
    THEN value
    ELSE IF value.t = "dict"
         THEN IF Head(keys) = UnhashableKey
              THEN PyRaise
              ELSE IF Head(keys) \in DOMAIN value.m
                   THEN IF value.m[Head(keys)].t = "none"
                        THEN PyNone
                        ELSE get_nested(value.m[Head(keys)], Tail(keys))
                   ELSE PyNone
         ELSE PyNone

Min(a, b) == IF a < b THEN a ELSE b
Max(a, b) == IF a > b THEN a ELSE b

\* min(1.0, max(0.0, score)) on thousandths
Clamp01(score) == Min(1000, Max(0, score))

(***************************************************************************)
(* Reports.  An absent report (None) has present = FALSE.                  *)
(***************************************************************************)
NoRug ==
    [present |-> FALSE, overall_score |-> 0, mint_authority_frozen |-> FALSE,
     freeze_authority_revoked |-> FALSE, top_10_holders_percent |-> 0,
     lp_locked |-> FALSE, lp_burned |-> FALSE, is_honeypot |-> FALSE]

NoLiq ==
    [present |-> FALSE, total_liquidity_usd |-> 0, lp_locked_percent |-> 0,
     lp_burned_percent |-> 0]

NoHold ==
    [present |-> FALSE, total_holders |-> 0, top_10_concentration |-> 0,
     growth_rate_per_min |-> 0]

(***************************************************************************)
(* Scoring Engine                                                          *)
(***************************************************************************)
\* The running sum of _calculate_security_score before its final clamp.
SecurityRaw(rugcheck) ==
    LET s0 == rugcheck.overall_score * 10
        s1 == s0 + (IF rugcheck.mint_authority_frozen THEN 100 ELSE -200)
        s2 == s1 + (IF rugcheck.freeze_authority_revoked THEN 100 ELSE -200)
        s3 == s2 + (IF rugcheck.lp_locked \/ rugcheck.lp_burned THEN 150 ELSE -300)
        s4 == s3 + (IF rugcheck.top_10_holders_percent < 35 THEN 100
                    ELSE IF rugcheck.top_10_holders_percent > 50 THEN -200 ELSE 0)
    IN  IF rugcheck.is_honeypot THEN 0 ELSE s4

\* Mutant: the final min/max clamp is dropped.
_calculate_security_score_noclamp(rugcheck) ==
    IF ~rugcheck.present THEN 500 ELSE SecurityRaw(rugcheck)

_calculate_security_score(rugcheck) ==
    IF ~rugcheck.present THEN 500 ELSE Clamp01(SecurityRaw(rugcheck))

_calculate_liquidity_score(liquidity, token) ==
    LET liquidity_usd == IF liquidity.present
                         THEN Max(token.liquidity_usd, liquidity.total_liquidity_usd)
                         ELSE token.liquidity_usd
        amount == IF 10000 <= liquidity_usd /\ liquidity_usd <= 300000
                  THEN 500 + (IF 30000 <= liquidity_usd /\ liquidity_usd <= 150000
                              THEN 200 ELSE 0)
                  ELSE IF liquidity_usd < 10000 THEN 200 ELSE 300
        secured == IF liquidity.present
                   THEN (liquidity.lp_locked_percent + liquidity.lp_burned_percent) * 3
                   ELSE 0
    IN  Clamp01(amount + secured)

_calculate_holder_score(holders) ==
    LET count == IF holders.total_holders >= 200 THEN 400
                 ELSE IF holders.total_holders >= 100 THEN 300
                 ELSE IF holders.total_holders >= 50 THEN 200
                 ELSE IF holders.total_holders >= 15 THEN 100 ELSE 0
        conc == IF holders.top_10_concentration < 25 THEN 300
                ELSE IF holders.top_10_concentration < 35 THEN 200
                ELSE IF holders.top_10_concentration < 50 THEN 100 ELSE 0
        growth == IF holders.growth_rate_per_min >= 20 THEN 300
                  ELSE IF holders.growth_rate_per_min >= 10 THEN 200
                  ELSE IF holders.growth_rate_per_min >= 5 THEN 100 ELSE 0
    IN  IF ~holders.present THEN 500 ELSE Clamp01(count + conc + growth)

_calculate_momentum_score(token) ==
    LET vol == IF token.volume_change_2min >= 300 THEN 400
               ELSE IF token.volume_change_2min >= 200 THEN 300
               ELSE IF token.volume_change_2min >= 100 THEN 200
               ELSE IF token.volume_change_2min >= 50 THEN 100 ELSE 0
        p5 == IF token.price_change_5min >= 40 THEN 300
              ELSE IF token.price_change_5min >= 20 THEN 200
              ELSE IF token.price_change_5min >= 10 THEN 100
              ELSE IF token.price_change_5min < 0 THEN -200 ELSE 0
        p1h == IF token.price_change_1h >= 100 THEN 300
               ELSE IF token.price_change_1h >= 50 THEN 200
               ELSE IF token.price_change_1h >= 25 THEN 100 ELSE 0
    IN  Clamp01(vol + p5 + p1h)

_calculate_social_score(token) ==
    Clamp01(500 + (IF token.volume_24h > 100000 THEN 300
                   ELSE IF token.volume_24h > 50000 THEN 200
                   ELSE IF token.volume_24h > 10000 THEN 100 ELSE 0))

_calculate_age_score(token) ==
    IF token.age_seconds <= 120 THEN 1000
    ELSE IF token.age_seconds <= 300 THEN 900
    ELSE IF token.age_seconds <= 600 THEN 700
    ELSE IF token.age_seconds <= 1800 THEN 500
    ELSE IF token.age_seconds <= 3600 THEN 300 ELSE 100

\* One point of the 0..100 scale, in the model's score units.
Pt(n) == n * 100000

\* (sum of component * weight) * 100, then min(100.0, max(0.0, score))
_calculate_rule_score(security_score, liquidity_score, holder_score, momentum_score, social_score, age_score) ==
    Min(Pt(100), Max(0,
        (security_score * 30 + liquidity_score * 20 + holder_score * 15
         + momentum_score * 20 + social_score * 10 + age_score * 5) * 100))

_categorize_score(score, token, rugcheck) ==
    IF rugcheck.present /\ rugcheck.overall_score >= 90 /\ score >= Pt(70)
       /\ (rugcheck.lp_locked \/ rugcheck.lp_burned)
    THEN "SAFE"
    ELSE IF token.age_seconds <= 120 /\ score >= Pt(70)
    THEN "FAST_SNIPER"
    ELSE IF 120 < token.age_seconds /\ token.age_seconds <= 300 /\ score >= Pt(75)
            /\ rugcheck.present /\ rugcheck.overall_score >= 85
    THEN "SMART_SNIPER"
    ELSE IF token.price_change_5min >= 40 /\ score >= Pt(70)
    THEN "MOMENTUM"
    ELSE IF score >= Pt(80) THEN "FAST_SNIPER"
    ELSE IF score >= Pt(70) THEN "SMART_SNIPER"
    ELSE IF score >= Pt(60) THEN "MOMENTUM"
    ELSE "SAFE"

\* Mutant: the honeypot check is made before the SAFE shortcut.
_determine_risk_level_honeypot_first(category, rugcheck, security_score) ==
    LET r0 == IF security_score >= 800 THEN "LOW"
              ELSE IF security_score >= 600 THEN "MEDIUM" ELSE "HIGH"
        r1 == IF category = "FAST_SNIPER" /\ r0 = "LOW" THEN "MEDIUM" ELSE r0
        r2 == IF (~rugcheck.mint_authority_frozen \/ ~rugcheck.freeze_authority_revoked)
                 /\ r1 = "LOW"
              THEN "MEDIUM" ELSE r1
        r3 == IF rugcheck.top_10_holders_percent > 50 /\ r2 # "HIGH"
              THEN "MEDIUM" ELSE r2
    IN  IF rugcheck.present /\ rugcheck.is_honeypot THEN "HIGH"
        ELSE IF category = "SAFE" THEN "LOW"
        ELSE IF ~rugcheck.present THEN r1
        ELSE r3

_determine_risk_level(category, rugcheck, security_score) ==
    LET r0 == IF security_score >= 800 THEN "LOW"
              ELSE IF security_score >= 600 THEN "MEDIUM" ELSE "HIGH"
        r1 == IF category = "FAST_SNIPER" /\ r0 = "LOW" THEN "MEDIUM" ELSE r0
        r2 == IF (~rugcheck.mint_authority_frozen \/ ~rugcheck.freeze_authority_revoked)
                 /\ r1 = "LOW"
              THEN "MEDIUM" ELSE r1
        r3 == IF rugcheck.top_10_holders_percent > 50 /\ r2 # "HIGH"
              THEN "MEDIUM" ELSE r2
    IN  IF category = "SAFE" THEN "LOW"
        ELSE IF ~rugcheck.present THEN r1
        ELSE IF rugcheck.is_honeypot THEN "HIGH"
        ELSE r3

\* The result of a call that raised instead of returning a ScoringResult.
ScoreRaised ==
    [raised |-> TRUE, score_combined |-> 0, score_rules |-> 0, score_ml |-> 0,
     security_score |-> 0, liquidity_score |-> 0, holder_score |-> 0,
     momentum_score |-> 0, social_score |-> 0, age_score |-> 0,
     risk_level |-> "MEDIUM", category |-> "UNKNOWN", pattern |-> "UNKNOWN",
     ml_confidence |-> 0]

\* Mutant: the confidence threshold of the gate is 0.30.
UseML_low(ml_score, ml_confidence) == ml_score > 0 /\ ml_confidence >= 30

\* The ML fusion gate of calculate_score.
UseML(ml_score, ml_confidence) == ml_score > 0 /\ ml_confidence >= 50

\* ScoringEngine.calculate_score; rule_weight and ml_weight are the engine's
\* fields (Python values: a number or None).  float * None raises TypeError.
calculate_score(token, rugcheck, liquidity, holders, ml_score, ml_confidence, rule_weight, ml_weight) ==
    LET security_score == _calculate_security_score(rugcheck)
        liquidity_score == _calculate_liquidity_score(liquidity, token)
        holder_score == _calculate_holder_score(holders)
        momentum_score == _calculate_momentum_score(token)
        social_score == _calculate_social_score(token)
        age_score == _calculate_age_score(token)
        rule_score == _calculate_rule_score(security_score, liquidity_score,
                          holder_score, momentum_score, social_score, age_score)
        use_ml == UseML(ml_score, ml_confidence)
        combined_score == IF use_ml
                          THEN (rule_score \div 100) * rule_weight.v
                               + (ml_score \div 100) * ml_weight.v
                          ELSE rule_score
        category == _categorize_score(combined_score, token, rugcheck)
        risk_level == _determine_risk_level(category, rugcheck, security_score)
    IN  IF use_ml /\ (rule_weight.t # "num" \/ ml_weight.t # "num")
        THEN ScoreRaised
        ELSE [raised |-> FALSE,
              score_combined |-> combined_score,
              score_rules |-> rule_score,
              score_ml |-> IF use_ml THEN ml_score ELSE 0,
              security_score |-> security_score,
              liquidity_score |-> liquidity_score,
              holder_score |-> holder_score,
              momentum_score |-> momentum_score,
              social_score |-> social_score,
              age_score |-> age_score,
              risk_level |-> risk_level,
              category |-> category,
              pattern |-> category,
              ml_confidence |-> IF use_ml THEN ml_confidence ELSE 0]

(***************************************************************************)
(* Pattern Detector                                                        *)
(***************************************************************************)
_is_fast_sniper(token, liquidity, holders) ==
    /\ token.age_seconds <= 120
    /\ 10000 <= token.liquidity_usd /\ token.liquidity_usd <= 50000
    /\ \/ holders.present /\ holders.growth_rate_per_min >= 15
       \/ token.volume_change_2min >= 200

_is_smart_sniper(token, rugcheck, liquidity) ==
    /\ 120 < token.age_seconds /\ token.age_seconds <= 300
    /\ 30000 <= token.liquidity_usd /\ token.liquidity_usd <= 150000
    /\ rugcheck.present
    /\ rugcheck.overall_score >= 85
    /\ (rugcheck.lp_locked \/ rugcheck.lp_burned)

_is_momentum(token, holders) ==
    /\ 300 < token.age_seconds /\ token.age_seconds <= 1800
    /\ token.price_change_5min >= 40
    /\ \/ holders.present /\ holders.growth_rate_per_min >= 10
       \/ token.volume_change_2min > 0

\* Mutant: the check of the liquidity report is left out.
_is_safe_lp_unchecked(rugcheck, liquidity) ==
    /\ rugcheck.present
    /\ rugcheck.overall_score >= 90
    /\ rugcheck.mint_authority_frozen
    /\ rugcheck.freeze_authority_revoked
    /\ rugcheck.top_10_holders_percent < 25

_is_safe(rugcheck, liquidity) ==
    /\ rugcheck.present
    /\ rugcheck.overall_score >= 90
    /\ liquidity.present =>
           liquidity.lp_locked_percent + liquidity.lp_burned_percent >= 100
    /\ rugcheck.mint_authority_frozen
    /\ rugcheck.freeze_authority_revoked
    /\ rugcheck.top_10_holders_percent < 25

_is_whale_accumulation(token, holders) ==
    /\ token.volume_change_2min >= 300
    /\ token.price_change_5min >= 20
    /\ holders.present
    /\ 20 <= holders.top_10_concentration /\ holders.top_10_concentration <= 40

\* Mutant: the SAFE predicate is tried before the FAST_SNIPER predicate.
detect_pattern_safe_first(token, rugcheck, liquidity, holders) ==
    IF _is_safe(rugcheck, liquidity) THEN "SAFE"
    ELSE IF _is_fast_sniper(token, liquidity, holders) THEN "FAST_SNIPER"
    ELSE IF _is_smart_sniper(token, rugcheck, liquidity) THEN "SMART_SNIPER"
    ELSE IF _is_momentum(token, holders) THEN "MOMENTUM"
    ELSE IF _is_whale_accumulation(token, holders) THEN "WHALE_ACCUMULATION"
    ELSE "UNKNOWN"

detect_pattern(token, rugcheck, liquidity, holders) ==
    IF _is_fast_sniper(token, liquidity, holders) THEN "FAST_SNIPER"
    ELSE IF _is_smart_sniper(token, rugcheck, liquidity) THEN "SMART_SNIPER"
    ELSE IF _is_momentum(token, holders) THEN "MOMENTUM"
    ELSE IF _is_safe(rugcheck, liquidity) THEN "SAFE"
    ELSE IF _is_whale_accumulation(token, holders) THEN "WHALE_ACCUMULATION"
    ELSE "UNKNOWN"

\* Mutant: a SAFE pattern is rated LOW only when a security report exists.
get_risk_level_safe_needs_report(pattern, rugcheck) ==
    IF pattern = "SAFE" /\ rugcheck.present THEN "LOW" ELSE "HIGH"

get_risk_level(pattern, rugcheck) ==
    CASE pattern = "SAFE" -> "LOW"
      [] pattern = "FAST_SNIPER" ->
            IF rugcheck.present /\ rugcheck.overall_score >= 80 THEN "MEDIUM" ELSE "HIGH"
      [] pattern = "SMART_SNIPER" -> "MEDIUM"
      [] pattern = "MOMENTUM" ->
            IF rugcheck.present /\ rugcheck.overall_score >= 85 THEN "LOW" ELSE "MEDIUM"
      [] pattern = "WHALE_ACCUMULATION" ->
            IF rugcheck.present /\ rugcheck.overall_score >= 80 THEN "MEDIUM" ELSE "HIGH"
      [] OTHER -> "HIGH"

(***************************************************************************)
(* Configuration files                                                     *)
(***************************************************************************)
MaxCap == 1
MaxDay == 2
MaxTokens == 2
NumTasks == 2
MaxCalls == 1
MaxTime == 31
MaxLen == 5
MaxPairs == 2
MaxRequests == 4

\* An entry written as a mapping with the single key k.
Keyed(k, val) == PyDict([x \in {k} |-> val])

\* The per-category switches of alerts.categories.
CategorySwitches ==
    PyDict([safe |-> PyNum(0), fast_sniper |-> PyNum(1), momentum |-> PyNum(1)])

\* No config.yaml: Config.config = {}.
ConfigEmpty == PyDict(EmptyMap)

\* A config.yaml with plain scalar entries.
ConfigPlain(cap) ==
    PyDict([alerts |-> PyDict([max_alerts_per_day |-> PyNum(cap),
                               min_score |-> PyNum(70),
                               min_ml_confidence |-> PyNum(65),
                               categories |-> CategorySwitches]),
            machine_learning |-> PyDict([enabled |-> PyNum(1),
                                         ml_weight |-> PyNum(40),
                                         rule_weight |-> PyNum(60)])])

\* A config.yaml whose entries are mappings keyed by the value the orchestrator
\* passes as last positional argument of get_nested.
ConfigKeyed(cap, categories) ==
    PyDict([alerts |-> PyDict([max_alerts_per_day |-> Keyed("15", PyNum(cap)),
                               min_score |-> Keyed("70", PyNum(70)),
                               min_ml_confidence |-> Keyed("0.65", PyNum(65)),
                               categories |-> categories]),
            machine_learning |-> PyDict([enabled |-> Keyed("True", PyNum(1)),
                                         ml_weight |-> Keyed("0.4", PyNum(40)),
                                         rule_weight |-> Keyed("0.6", PyNum(60))])])

Configs ==
    {ConfigEmpty, ConfigPlain(MaxCap), ConfigKeyed(MaxCap, CategorySwitches)}
    \cup {ConfigKeyed(cap, PyNone) : cap \in 0..MaxCap}

(***************************************************************************)
(* Tokens and analyzer reports handed to the orchestrator                  *)
(***************************************************************************)
Token(liq, age, vol2, p5, p1h, vol24) ==
    [liquidity_usd |-> liq, age_seconds |-> age, volume_change_2min |-> vol2,
     price_change_5min |-> p5, price_change_1h |-> p1h, volume_24h |-> vol24]

Rug(score, mint, freeze, top10, locked, burned, honeypot) ==
    [present |-> TRUE, overall_score |-> score, mint_authority_frozen |-> mint,
     freeze_authority_revoked |-> freeze, top_10_holders_percent |-> top10,
     lp_locked |-> locked, lp_burned |-> burned, is_honeypot |-> honeypot]

Liq(total, locked, burned) ==
    [present |-> TRUE, total_liquidity_usd |-> total, lp_locked_percent |-> locked,
     lp_burned_percent |-> burned]

Hold(total, top10, growth) ==
    [present |-> TRUE, total_holders |-> total, top_10_concentration |-> top10,
     growth_rate_per_min |-> growth]

\* What a scan hands over for one token, with the reports its analyzers
\* return when they do not fail.
Cases ==
    { \* young, burned LP, clean report, fast holder growth
      [token |-> Token(30000, 60, 0, 0, 0, 0),
       rugcheck |-> Rug(95, TRUE, TRUE, 10, FALSE, TRUE, FALSE),
       liquidity |-> Liq(30000, 0, 100),
       holders |-> Hold(200, 10, 20)],
      \* old, thin, nothing secured
      [token |-> Token(5000, 4000, 0, -5, 0, 0),
       rugcheck |-> Rug(50, FALSE, FALSE, 60, FALSE, FALSE, FALSE),
       liquidity |-> Liq(5000, 0, 0),
       holders |-> Hold(10, 60, 0)],
      \* twenty minutes old and running
      [token |-> Token(100000, 1000, 300, 40, 100, 200000),
       rugcheck |-> Rug(85, TRUE, TRUE, 30, TRUE, FALSE, FALSE),
       liquidity |-> Liq(100000, 100, 0),
       holders |-> Hold(200, 30, 12)],
      \* the same, with three warnings in its report, one of them a honeypot
      [token |-> Token(100000, 1000, 300, 40, 100, 200000),
       rugcheck |-> Rug(85, TRUE, TRUE, 30, TRUE, FALSE, TRUE),
       liquidity |-> Liq(100000, 100, 0),
       holders |-> Hold(200, 30, 12)] }

(***************************************************************************)
(* Orchestrator state                                                      *)
(***************************************************************************)
VARIABLES
    config,              \* Config.config, the loaded configuration
    batch,               \* what the scanners and analyzers deliver in this run
    telegram_bot,        \* NotificationManager.telegram_bot is set
    max_alerts_per_day,  \* Orchestrator fields
    min_alert_score,
    rule_weight,         \* ScoringEngine fields
    ml_weight,
    alerts_sent_today,
    total_alerts_sent,
    total_tokens_analyzed,
    last_alert_reset,    \* UTC date (day number) of last_alert_reset
    today,               \* UTC date of the wall clock
    pc,                  \* where each process_token coroutine stands
    job,                 \* its token, reports, ScoringResult and admission
    dispatched,          \* calls of notification_manager.send_alert so far
    resets,              \* per UTC date, the counter resets performed on it
    last_check,          \* UTC date of the latest _should_alert call
    completed,           \* summary of the pipeline that finished last
    sc_pc, sc_in, sc_out, \* a direct call of a ScoringEngine or PatternDetector method
    cache,               \* per analyzer, its cache: address -> (report, time)
    loop_time,           \* asyncio.get_event_loop().time()
    upstream,            \* what the external sources may answer in this run
    call,                \* the analyze call in progress
    returned,            \* the analyze call that returned last
    loop_pc,             \* where the main loop of start() stands
    signal,              \* the external stop signal delivered, if any
    scanner              \* the DexScreenerScanner the orchestrator constructed

orch_vars ==
    <<config, batch, telegram_bot, max_alerts_per_day, min_alert_score, rule_weight,
      ml_weight, alerts_sent_today, total_alerts_sent, total_tokens_analyzed,
      last_alert_reset, today, pc, job, dispatched, resets, last_check, completed>>

score_vars == <<sc_pc, sc_in, sc_out>>

an_vars == <<cache, loop_time, upstream, call, returned>>

loop_vars == <<loop_pc, signal>>

scan_vars == <<scanner>>

vars == <<orch_vars, score_vars, an_vars, loop_vars, scan_vars>>

Tasks == 1..NumTasks
Days == 0..MaxDay

NoScoring == ScoreRaised

Analyzers == {"rugcheck", "liquidity", "holders"}

\* gathered: what asyncio.gather holds for each analyzer call of the token
NoJob ==
    [token |-> Token(0, 0, 0, 0, 0, 0), gathered |-> [a \in Analyzers |-> "pending"],
     rugcheck |-> NoRug, liquidity |-> NoLiq,
     holders |-> NoHold, scoring |-> NoScoring, admit |-> "none",
     base_today |-> 0, base_total |-> 0, sent |-> 0, steps |-> <<>>,
     saved |-> "none"]

NoCompleted ==
    [admit |-> "none", score_combined |-> 0, sent |-> 0, d_today |-> 0, d_total |-> 0,
     steps |-> <<>>, delivered |-> "none"]

(***************************************************************************)
(* Orchestrator: admission                                                 *)
(***************************************************************************)
\* str.lower() of a category label
Lower(category) ==
    CASE category = "SAFE" -> "safe"
      [] category = "FAST_SNIPER" -> "fast_sniper"
      [] category = "SMART_SNIPER" -> "smart_sniper"
      [] category = "MOMENTUM" -> "momentum"
      [] category = "WHALE_ACCUMULATION" -> "whale_accumulation"
      [] OTHER -> "unknown"

\* category_filters.get(category_key, True), as a truth value
CategoryEnabled(category_filters, category_key) ==
    IF category_key \in DOMAIN category_filters.m
    THEN Truthy(category_filters.m[category_key])
    ELSE TRUE

\* Mutant: the daily limit is compared with > instead of >=.
CapReached_gt(counter, cap) == counter > cap.v

\* self.alerts_sent_today >= self.max_alerts_per_day
CapReached(counter, cap) == counter >= cap.v

\* Mutant: the date comparison admits the day of the last reset.
ResetNeeded_ge(current_date, last_reset_date) == current_date >= last_reset_date

\* current_date > last_reset_date
ResetNeeded(current_date, last_reset_date) == current_date > last_reset_date

\* Orchestrator._should_alert after its call of _reset_alert_counter_if_needed:
\* "true", "false", or "raise" when a comparison with None (or the lookup of a
\* dict key in the category mapping) raises TypeError.  counter is
\* alerts_sent_today as the reset left it.
_should_alert(counter, scoring_result) ==
    LET min_ml_confidence == get_nested(config, <<"alerts", "min_ml_confidence", "0.65">>)
        category_filters == get_nested(config, <<"alerts", "categories", UnhashableKey>>)
    IN  IF max_alerts_per_day.t # "num" THEN "raise"
        ELSE IF CapReached(counter, max_alerts_per_day) THEN "false"
        ELSE IF min_alert_score.t # "num" THEN "raise"
        ELSE IF scoring_result.score_combined < Pt(min_alert_score.v) THEN "false"
        ELSE IF scoring_result.ml_confidence > 0 /\ min_ml_confidence.t # "num"
        THEN "raise"
        ELSE IF scoring_result.ml_confidence > 0
                /\ scoring_result.ml_confidence < min_ml_confidence.v
        THEN "false"
        ELSE IF category_filters.t = "raise" THEN "raise"
        ELSE IF Truthy(category_filters)
                /\ ~CategoryEnabled(category_filters, Lower(scoring_result.category))
        THEN "false"
        ELSE "true"

Admitted_unless_false(admit) == admit # "false"

\* if self._should_alert(scoring_result): an exception of the call leaves
\* process_token through its handler, and no alert is sent.
Admitted(admit) == admit = "true"

\* Mutant: only the daily counter is incremented.
_send_alert_counters_daily_only(sent_today, total_sent) == <<sent_today + 1, total_sent>>

\* The two increments of _send_alert after the dispatch returned.
_send_alert_counters(sent_today, total_sent) == <<sent_today + 1, total_sent + 1>>

\* Mutant: the counters move only for an alert that was delivered.
_send_alert_counts_if_delivered(outcome) == outcome = "true"

\* _send_alert: the two increments follow the await of send_alert inside the
\* try and do not read what it returned; they run unless it raised.
_send_alert_counts(outcome) == outcome # "raised"

\* Mutant: the predictor defines predict and answers score 0.8 with
\* confidence 0.75.
_get_ml_score_predicts == [score |-> Pt(80), confidence |-> 75]

\* Orchestrator._get_ml_score: MLPredictor defines no predict, the attribute
\* lookup raises inside the try and the handler returns zeros.
_get_ml_score == [score |-> 0, confidence |-> 0]

\* The ml_score / ml_confidence process_token passes to calculate_score.
MLInputs ==
    IF Truthy(get_nested(config, <<"machine_learning", "enabled", "True">>))
    THEN _get_ml_score
    ELSE [score |-> 0, confidence |-> 0]

\* process_token lines 302-307: what the orchestrator writes back into the
\* ScoringResult after pattern detection.
OverwriteWithPattern(scoring_result, pattern, rugcheck) ==
    [scoring_result EXCEPT !.pattern = pattern,
                           !.risk_level = get_risk_level(pattern, rugcheck)]

(***************************************************************************)
(* Orchestrator: the per-token pipeline, one action per stretch of         *)
(* process_token between two points where the coroutine is suspended       *)
(***************************************************************************)
InFlight == Cardinality({q \in Tasks : pc[q] # "idle"})

\* process_token returns to _scan_cycle, which counts the token.  completed
\* keeps what the pipeline did after its admission check: the notifications it
\* dispatched and by how much the two counters moved, the steps it went
\* through and what send_alert returned.
Finish(p, admit, base_today, base_total, sent, steps, delivered) ==
    /\ pc' = [pc EXCEPT ![p] = "idle"]
    /\ job' = [job EXCEPT ![p] = NoJob]
    /\ total_tokens_analyzed' = total_tokens_analyzed + 1
    /\ completed' = [admit |-> admit,
                     score_combined |-> job[p].scoring.score_combined,
                     sent |-> sent,
                     d_today |-> alerts_sent_today' - base_today,
                     d_total |-> total_alerts_sent' - base_total,
                     steps |-> steps, delivered |-> delivered]

\* _scan_cycle hands the next token to process_token, which runs up to the
\* gather of the three analyzers.
StartToken(p) ==
    /\ pc[p] = "idle"
    /\ total_tokens_analyzed + InFlight < MaxTokens
    /\ \E c \in batch.cases :
          job' = [job EXCEPT ![p] = [NoJob EXCEPT !.token = c.token]]
    /\ pc' = [pc EXCEPT ![p] = "analyzing"]
    /\ UNCHANGED <<config, batch, telegram_bot, max_alerts_per_day, min_alert_score,
                   rule_weight, ml_weight, alerts_sent_today, total_alerts_sent,
                   total_tokens_analyzed, last_alert_reset, today, dispatched,
                   resets, last_check, completed>>

\* The deliveries of the batch that carry this token
ItemsOf(token) == {c \in batch.cases : c.token = token}

\* One of the three analyze coroutines of the gather ends: it returns its
\* report or raises, and the gather keeps the report or the exception.
AnalyzerDone(p, a) ==
    /\ pc[p] = "analyzing"
    /\ job[p].gathered[a] = "pending"
    /\ \E failed \in batch.faults :
          job' = [job EXCEPT ![p].gathered[a] = IF failed THEN "raised" ELSE "returned"]
    /\ UNCHANGED <<config, batch, telegram_bot, max_alerts_per_day, min_alert_score,
                   rule_weight, ml_weight, alerts_sent_today, total_alerts_sent,
                   total_tokens_analyzed, last_alert_reset, today, pc, dispatched,
                   resets, last_check, completed>>

GatherComplete_any(gathered) == \E a \in Analyzers : gathered[a] # "pending"

\* asyncio.gather(..., return_exceptions=True) resumes its caller when each
\* of the three coroutines has returned or raised.
GatherComplete(gathered) == \A a \in Analyzers : gathered[a] # "pending"

\* results[i] if not isinstance(results[i], Exception) else None
Unpack(outcome, report, none) == IF outcome = "returned" THEN report ELSE none

\* The gather returns (an analyzer that raised yields None); ML score,
\* calculate_score, detect_pattern, the overwrite and the AnalysisResult
\* follow without suspension, up to the await of _save_analysis.
AnalyzersDone(p) ==
    /\ pc[p] = "analyzing"
    /\ GatherComplete(job[p].gathered)
    /\ UNCHANGED <<config, batch, telegram_bot, max_alerts_per_day, min_alert_score,
                   rule_weight, ml_weight, alerts_sent_today, total_alerts_sent,
                   last_alert_reset, today, dispatched, resets, last_check>>
    /\ \E malformed \in batch.malformed, c \in ItemsOf(job[p].token) :
          /\ LET rugcheck == Unpack(job[p].gathered["rugcheck"], c.rugcheck, NoRug)
                 liquidity == Unpack(job[p].gathered["liquidity"], c.liquidity, NoLiq)
                 holders == Unpack(job[p].gathered["holders"], c.holders, NoHold)
                 scoring_result ==
                     IF malformed THEN ScoreRaised
                     ELSE calculate_score(c.token, rugcheck, liquidity, holders,
                                          MLInputs.score, MLInputs.confidence,
                                          rule_weight, ml_weight)
                 pattern == detect_pattern(c.token, rugcheck, liquidity, holders)
             IN  IF scoring_result.raised
                 THEN /\ Finish(p, "none", alerts_sent_today, total_alerts_sent, 0,
                                 <<"analyzers", "scoring">>, "none")
                 ELSE /\ job' = [job EXCEPT ![p].steps =
                                                <<"analyzers", "scoring", "pattern",
                                                  "overwrite", "persist">>,
                                            ![p].rugcheck = rugcheck,
                                            ![p].liquidity = liquidity,
                                            ![p].holders = holders,
                                            ![p].scoring =
                                                OverwriteWithPattern(scoring_result,
                                                                     pattern, rugcheck)]
                      /\ pc' = [pc EXCEPT ![p] = "saving"]
                      /\ UNCHANGED <<total_tokens_analyzed, completed>>

\* Mutant: a failure of the database is raised to process_token.
_save_analysis_reraise(failed) == IF failed THEN "raised" ELSE "saved"

\* _save_analysis: a failure of to_dict or of db.save_analysis is logged.
_save_analysis(failed) == IF failed THEN "logged" ELSE "saved"

\* _save_analysis returned; _should_alert runs with its reset of the daily
\* counter, and on admission _send_alert calls
\* notification_manager.send_alert, which suspends only when a Telegram bot
\* is configured and returns False at once without one.  The second utcnow()
\* of the reset may already read the next date.
SaveDone(p) ==
    /\ pc[p] = "saving"
    /\ UNCHANGED <<config, batch, telegram_bot, max_alerts_per_day, min_alert_score,
                   rule_weight, ml_weight>>
    /\ \E failed \in batch.faults :
        LET saved == _save_analysis(failed)
            reset == ResetNeeded(today, last_alert_reset)
            counter == IF reset THEN 0 ELSE alerts_sent_today
            admit == _should_alert(counter, job[p].scoring)
            checked == job[p].steps \o <<"admission">>
        IN  IF saved = "raised"
            THEN /\ UNCHANGED <<alerts_sent_today, total_alerts_sent, last_alert_reset,
                                today, dispatched, resets, last_check>>
                 /\ Finish(p, "none", alerts_sent_today, total_alerts_sent, 0,
                           job[p].steps, "none")
            ELSE
           /\ \E now \in {today, Min(today + 1, MaxDay)} :
                 /\ today' = IF reset THEN now ELSE today
                 /\ last_alert_reset' = IF reset THEN now ELSE last_alert_reset
           /\ resets' = IF reset THEN [resets EXCEPT ![today] = @ + 1] ELSE resets
           /\ last_check' = today
           /\ IF Admitted(admit)
              THEN /\ dispatched' = dispatched + 1
                   /\ IF telegram_bot
                      THEN /\ alerts_sent_today' = counter
                           /\ pc' = [pc EXCEPT ![p] = "sending"]
                           /\ job' = [job EXCEPT ![p].admit = admit,
                                                 ![p].sent = dispatched' - dispatched,
                                                 ![p].base_today = counter,
                                                 ![p].base_total = total_alerts_sent,
                                                 ![p].steps = checked \o <<"notify">>,
                                                 ![p].saved = saved]
                           /\ UNCHANGED <<total_alerts_sent, total_tokens_analyzed,
                                          completed>>
                      ELSE /\ alerts_sent_today' =
                                 IF _send_alert_counts("false")
                                 THEN _send_alert_counters(counter, total_alerts_sent)[1]
                                 ELSE counter
                           /\ total_alerts_sent' =
                                 IF _send_alert_counts("false")
                                 THEN _send_alert_counters(counter, total_alerts_sent)[2]
                                 ELSE total_alerts_sent
                           /\ Finish(p, admit, counter, total_alerts_sent,
                                     dispatched' - dispatched,
                                     checked \o <<"notify">>, "false")
              ELSE /\ alerts_sent_today' = counter
                   /\ UNCHANGED <<total_alerts_sent, dispatched>>
                   /\ Finish(p, admit, counter, total_alerts_sent,
                             dispatched' - dispatched, checked, "none")

\* notification_manager.send_alert returned what the Telegram delivery gave,
\* True or False (it does not raise): _send_alert increments both counters
\* and process_token returns.
SendDone(p) ==
    /\ pc[p] = "sending"
    /\ \E telegram_success \in BOOLEAN :
          LET outcome == IF telegram_success THEN "true" ELSE "false"
              counters == IF _send_alert_counts(outcome)
                          THEN _send_alert_counters(alerts_sent_today, total_alerts_sent)
                          ELSE <<alerts_sent_today, total_alerts_sent>>
          IN  /\ alerts_sent_today' = counters[1]
              /\ total_alerts_sent' = counters[2]
              /\ Finish(p, job[p].admit, job[p].base_today, job[p].base_total,
                        job[p].sent, job[p].steps, outcome)
    /\ UNCHANGED <<config, batch, telegram_bot, max_alerts_per_day, min_alert_score,
                   rule_weight, ml_weight, last_alert_reset, today, dispatched,
                   resets, last_check>>

\* The wall clock passes midnight UTC.
Tick ==
    /\ today < MaxDay
    /\ today' = today + 1
    /\ UNCHANGED <<config, batch, telegram_bot, max_alerts_per_day, min_alert_score,
                   rule_weight, ml_weight, alerts_sent_today, total_alerts_sent,
                   total_tokens_analyzed, last_alert_reset, pc, job, dispatched,
                   resets, last_check, completed>>

(***************************************************************************)
(* Orchestrator.start: the main loop                                       *)
(***************************************************************************)
Idle == \A p \in Tasks : pc[p] = "idle"

\* _scan_cycle returned: start() sleeps poll_interval.
ScanCycleReturns ==
    /\ loop_pc = "scanning"
    /\ Idle
    /\ loop_pc' = "waiting"
    /\ UNCHANGED <<signal, orch_vars, score_vars, an_vars, scan_vars>>

AfterScanException_exit == "stopped"

\* except Exception in the loop of start(): log, then asyncio.sleep(30)
AfterScanException == "cooldown"

\* _scan_cycle raised outside the handlers of its scanners and tokens (it
\* logs and re-raises).
ScanCycleRaises ==
    /\ loop_pc = "scanning"
    /\ Idle
    /\ loop_pc' = AfterScanException
    /\ UNCHANGED <<signal, orch_vars, score_vars, an_vars, scan_vars>>

\* asyncio.sleep(poll_interval) is over: the loop starts its next scan.
WaitDone ==
    /\ loop_pc = "waiting"
    /\ loop_pc' = "scanning"
    /\ UNCHANGED <<signal, orch_vars, score_vars, an_vars, scan_vars>>

\* asyncio.sleep(30) of the exception handler is over.
CooldownDone ==
    /\ loop_pc = "cooldown"
    /\ loop_pc' = "scanning"
    /\ UNCHANGED <<signal, orch_vars, score_vars, an_vars, scan_vars>>

\* An external stop.  KeyboardInterrupt raised in start()'s own code is
\* caught there and breaks the loop.  A cancellation arrives as
\* CancelledError at the await where the task is suspended; no handler of
\* process_token, _send_alert, _scan_cycle or start() catches it (they catch
\* Exception), so the pipeline in flight is abandoned where it stands.
Interrupt(sig) ==
    /\ signal = "none"
    /\ loop_pc \in {"scanning", "waiting", "cooldown"}
    /\ sig = "KeyboardInterrupt" => loop_pc = "scanning" /\ Idle
    /\ signal' = sig
    /\ loop_pc' = IF sig = "KeyboardInterrupt" THEN "stopped" ELSE "cancelled"
    /\ pc' = [p \in Tasks |-> "idle"]
    /\ job' = [p \in Tasks |-> NoJob]
    /\ UNCHANGED <<config, batch, telegram_bot, max_alerts_per_day, min_alert_score,
                   rule_weight, ml_weight, alerts_sent_today, total_alerts_sent,
                   total_tokens_analyzed, last_alert_reset, today, dispatched,
                   resets, last_check, completed, score_vars, an_vars, scan_vars>>

(***************************************************************************)
(* Analyzers: what the upstream sources answer, and the parsing            *)
(***************************************************************************)
\* Scales: overall_score in tenths (50 is 5.0), liquidity_stability_score in
\* tenths (500 is 50.0), percentages, holders and dollars in units.

max_retries == 3

cache_ttl == 30

RugCheckResult(score, mint, freeze, top10, locked, burned, risks, honeypot) ==
    [overall_score |-> score, mint_authority_frozen |-> mint,
     freeze_authority_revoked |-> freeze, top_10_holders_percent |-> top10,
     lp_locked |-> locked, lp_burned |-> burned, known_risks |-> risks,
     is_honeypot |-> honeypot, can_sell |-> ~honeypot]

\* The report built at three places of the analyzer, which differ in the
\* diagnostic string only.
RugCheckDefault(diagnostic) ==
    RugCheckResult(50, FALSE, FALSE, 100, FALSE, FALSE, <<diagnostic>>, FALSE)

\* price_impact_1k_usd, price_impact_5k_usd and liquidity_sol are quotients
\* of total_liquidity_usd and are not carried in the record.
LiquidityResult(total, locked, burned, stability) ==
    [total_liquidity_usd |-> total, lp_locked_percent |-> locked,
     lp_burned_percent |-> burned, liquidity_stability_score |-> stability]

HolderResult(total, top10, top20, dev, growth, distribution) ==
    [total_holders |-> total, top_10_concentration |-> top10,
     top_20_concentration |-> top20, dev_wallet_percent |-> dev,
     growth_rate_per_min |-> growth, distribution_score |-> distribution]

\* The JSON body of a RugCheck report.  kind "empty" is {} (or any falsy
\* JSON), "report" a dict of the documented shape, "malformed" a truthy JSON
\* value whose parts do not have the methods the parser calls.
RugPayload(kind, risks, mint_null, freeze_null, top_holders, markets) ==
    [kind |-> kind, risks |-> risks, mintAuthority_null |-> mint_null,
     freezeAuthority_null |-> freeze_null, topHolders |-> top_holders,
     markets |-> markets]

EmptyPayload == RugPayload("empty", <<>>, FALSE, FALSE, <<>>, <<>>)

Risk(level, description) == [level |-> level, description |-> description]

\* 'honeypot' in str(risk).lower()
MentionsHoneypot(description) == description \in {"Honeypot detected", "HONEYPOT suspected"}

RECURSIVE SumSeq(_)
SumSeq(s) == IF s = <<>> THEN 0 ELSE Head(s) + SumSeq(Tail(s))

Count(s, level) == Cardinality({i \in DOMAIN s : s[i].level = level})

\* RugCheckAnalyzer._parse_response
_parse_response(data) ==
    IF data.kind = "empty" THEN RugCheckDefault("No data available")
    ELSE IF data.kind = "malformed" THEN RugCheckDefault("Parse error")
    ELSE LET overall_score == 100 - 20 * Count(data.risks, "danger")
                                  - 5 * Count(data.risks, "warning")
             top_10 == SubSeq(data.topHolders, 1, Min(10, Len(data.topHolders)))
             listed == SelectSeq(data.risks, LAMBDA r : r.level \in {"danger", "warning"})
             known_risks == [i \in DOMAIN listed |-> listed[i].description]
         IN  RugCheckResult(Max(0, Min(100, overall_score)),
                            data.mintAuthority_null, data.freezeAuthority_null,
                            SumSeq(top_10),
                            \E i \in DOMAIN data.markets : data.markets[i].lpLockedPct > 0,
                            \E i \in DOMAIN data.markets : data.markets[i].lpBurnPct > 0,
                            known_risks,
                            \E i \in DOMAIN known_risks : MentionsHoneypot(known_risks[i]))

\* The JSON body of a DexScreener answer.  kind "empty" is {}, "no_pairs" a
\* dict whose 'pairs' is missing, null or empty, "pairs" a dict with a first
\* pair, "malformed" a first pair whose numbers do not convert, "scalar" a
\* truthy JSON value that is no container (a number).  info_holders is -1
\* when the pair carries no holder count.
DexPayload(kind, usd, locked, burned, info_holders) ==
    [kind |-> kind, usd |-> usd, locked |-> locked, burned |-> burned,
     info_holders |-> info_holders]

EmptyDex == DexPayload("empty", 0, 0, 0, 0 - 1)

\* The token_data dict handed to the liquidity and holder analyzers: None, or
\* TokenData.to_dict().
NoObservation == [given |-> FALSE, liquidity_usd |-> 0, holders |-> 0, holder_growth_rate |-> 0]

Observation(liq, holders, growth) ==
    [given |-> TRUE, liquidity_usd |-> liq, holders |-> holders, holder_growth_rate |-> growth]

\* LiquidityAnalyzer._estimate_price_impact(liquidity_usd, trade) < percent
PriceImpactBelow(liquidity_usd, trade_size_usd, percent) ==
    /\ liquidity_usd > 0
    /\ trade_size_usd * 100 < percent * liquidity_usd

\* LiquidityAnalyzer._calculate_stability_score, in tenths
_calculate_stability_score(liquidity_usd, lp_locked, lp_burned) ==
    LET amount == IF liquidity_usd >= 100000 THEN 400
                  ELSE IF liquidity_usd >= 50000 THEN 300
                  ELSE IF liquidity_usd >= 20000 THEN 200
                  ELSE IF liquidity_usd >= 10000 THEN 100
                  ELSE 0
        secured == Min(400, (lp_locked + lp_burned) * 4)
        impact == IF PriceImpactBelow(liquidity_usd, 1000, 1) THEN 200
                  ELSE IF PriceImpactBelow(liquidity_usd, 1000, 3) THEN 150
                  ELSE IF PriceImpactBelow(liquidity_usd, 1000, 5) THEN 100
                  ELSE IF PriceImpactBelow(liquidity_usd, 1000, 10) THEN 50
                  ELSE 0
    IN  Min(1000, amount + secured + impact)

LiquidityZero == LiquidityResult(0, 0, 0, 0)

\* LiquidityAnalyzer._parse_liquidity_data; PyRaise when the exception
\* leaves the function (the test of 'pairs' in a number).
_parse_liquidity_data(data, token_data) ==
    IF data.kind = "scalar" THEN PyRaise
    ELSE IF data.kind \in {"empty", "no_pairs"}
         THEN IF token_data.given
              THEN LiquidityResult(token_data.liquidity_usd, 0, 0, 500)
              ELSE LiquidityZero
    ELSE IF data.kind = "malformed" THEN LiquidityZero
    ELSE LiquidityResult(data.usd, data.locked, data.burned,
                         _calculate_stability_score(data.usd, data.locked, data.burned))

\* HolderAnalyzer._calculate_distribution_score
_calculate_distribution_score(total_holders, top_10_concentration, dev_wallet_percent) ==
    LET holders == IF total_holders >= 1000 THEN 40
                   ELSE IF total_holders >= 500 THEN 35
                   ELSE IF total_holders >= 200 THEN 30
                   ELSE IF total_holders >= 100 THEN 25
                   ELSE IF total_holders >= 50 THEN 20
                   ELSE IF total_holders >= 20 THEN 10
                   ELSE 0
        top == IF top_10_concentration <= 20 THEN 40
               ELSE IF top_10_concentration <= 30 THEN 30
               ELSE IF top_10_concentration <= 40 THEN 20
               ELSE IF top_10_concentration <= 50 THEN 10
               ELSE 0
        dev == IF dev_wallet_percent <= 5 THEN 20
               ELSE IF dev_wallet_percent <= 10 THEN 15
               ELSE IF dev_wallet_percent <= 15 THEN 10
               ELSE IF dev_wallet_percent <= 20 THEN 5
               ELSE 0
    IN  Min(100, holders + top + dev)

\* The estimate of the two concentrations from the number of holders
ConcentrationTier(total_holders) ==
    IF total_holders > 1000 THEN <<15, 25>>
    ELSE IF total_holders > 500 THEN <<25, 40>>
    ELSE IF total_holders > 200 THEN <<35, 50>>
    ELSE IF total_holders > 50 THEN <<50, 70>>
    ELSE <<70, 90>>

\* HolderAnalyzer._analyze_holders once the DexScreener answer dex_data is in
_analyze_holders(dex_data, token_data) ==
    LET observed == IF token_data.given THEN token_data.holders ELSE 0
        growth_rate == IF token_data.given THEN token_data.holder_growth_rate ELSE 0
        has_pair == dex_data.kind = "pairs"
        total_holders == IF has_pair /\ dex_data.info_holders >= 0
                         THEN Max(observed, dex_data.info_holders)
                         ELSE observed
        tier == IF has_pair /\ total_holders > 0
                THEN ConcentrationTier(total_holders)
                ELSE <<100, 100>>
    IN  HolderResult(total_holders, tier[1], tier[2], 0, growth_rate,
                     _calculate_distribution_score(total_holders, tier[1], 0))

(***************************************************************************)
(* Analyzers: analyze, the fetch and the cache                             *)
(***************************************************************************)
Addresses == {"mintA", "mintB"}

\* What one HTTP request ends in: a status line with its JSON body,
\* asyncio.TimeoutError, or another exception (of the transport, or of
\* response.json() on a body that is no JSON).
Response(kind, status, body) == [kind |-> kind, status |-> status, body |-> body]

GotJson(r) == r.kind = "status" /\ r.status = 200

NoEntry == [stored |-> FALSE, data |-> PyNone, time |-> 0]

Entry(data, time) == [stored |-> TRUE, data |-> data, time |-> time]

IdleCall ==
    [pc |-> "idle", analyzer |-> "rugcheck", token_address |-> "mintA",
     token_data |-> NoObservation, attempt |-> 0, responses |-> <<>>, waits |-> <<>>,
     called_at |-> 0]

NoReturn ==
    [calls |-> 0, analyzer |-> "rugcheck", token_address |-> "mintA",
     token_data |-> NoObservation, result |-> PyNone, raised |-> FALSE, cached |-> FALSE,
     responses |-> <<>>, waits |-> <<>>, called_at |-> 0, returned_at |-> 0]

analyze_except_reraise(result, default) ==
    IF result = PyRaise
    THEN [result |-> default, raised |-> TRUE, store |-> FALSE]
    ELSE [result |-> result, raised |-> FALSE, store |-> TRUE]

\* The except clause that closes each analyze: a raise inside becomes the
\* default report, which is returned without being stored.
analyze_except(result, default) ==
    IF result = PyRaise
    THEN [result |-> default, raised |-> FALSE, store |-> FALSE]
    ELSE [result |-> result, raised |-> FALSE, store |-> TRUE]

HolderDefault == HolderResult(0, 100, 0, 0, 0, 0)

Cached_if_fetched(outcome, responses) ==
    /\ outcome.store
    /\ responses # <<>>
    /\ GotJson(responses[Len(responses)])

\* self.cache[cache_key] = (result, time) follows the parse whatever the
\* fetch brought; only a raise inside analyze skips it.
Cached(outcome, responses) == outcome.store

\* The end of analyze: the result is cached under the address at the loop
\* time of that moment and returned.
Return(outcome, responses, waits, now) ==
    /\ cache' = IF Cached(outcome, responses)
                THEN [cache EXCEPT ![call.analyzer][call.token_address] =
                                       Entry(outcome.result, now)]
                ELSE cache
    /\ returned' = [calls |-> returned.calls + 1, analyzer |-> call.analyzer,
                    token_address |-> call.token_address,
                    token_data |-> call.token_data, result |-> outcome.result,
                    raised |-> outcome.raised, cached |-> FALSE,
                    responses |-> responses, waits |-> waits,
                    called_at |-> call.called_at, returned_at |-> now]
    /\ call' = IdleCall

CacheFresh_le(e, now) == e.stored /\ now - e.time <= cache_ttl

\* The test of the cache at the head of analyze
CacheFresh(e, now) == e.stored /\ now - e.time < cache_ttl

\* analyze is called: a cache entry of the address younger than cache_ttl is
\* returned at once, otherwise the fetch begins.
AnalyzeCall(a, addr, td) ==
    /\ call.pc = "idle"
    /\ returned.calls < upstream.calls
    /\ a = "rugcheck" => td = NoObservation
    /\ LET e == cache[a][addr]
       IN  IF CacheFresh(e, loop_time)
           THEN /\ returned' = [calls |-> returned.calls + 1, analyzer |-> a,
                                token_address |-> addr, token_data |-> td,
                                result |-> e.data, raised |-> FALSE, cached |-> TRUE,
                                responses |-> <<>>, waits |-> <<>>,
                                called_at |-> loop_time, returned_at |-> loop_time]
                /\ UNCHANGED call
           ELSE /\ call' = [pc |-> "request", analyzer |-> a, token_address |-> addr,
                            token_data |-> td, attempt |-> 0, responses |-> <<>>,
                            waits |-> <<>>, called_at |-> loop_time]
                /\ UNCHANGED returned
    /\ UNCHANGED <<cache, loop_time, upstream>>

\* RugCheckAnalyzer._fetch_with_retry, one pass of its loop: the request of
\* this attempt is answered by r.
RugResponse(r) ==
    /\ call.pc = "request"
    /\ call.analyzer = "rugcheck"
    /\ r \in upstream.rugcheck
    /\ LET attempt == call.attempt
           seen == Append(call.responses, r)
           sleep == /\ call' = [call EXCEPT !.pc = "backoff", !.responses = seen,
                                            !.waits = Append(@, 2 ^ attempt)]
                    /\ UNCHANGED <<cache, returned>>
           finish(data) == Return(analyze_except(_parse_response(data),
                                                 RugCheckDefault("Analysis failed")),
                                  seen, call.waits, loop_time)
       IN  IF GotJson(r) THEN finish(r.body)
           ELSE IF r.kind = "status" /\ r.status = 429 THEN sleep
           ELSE IF r.kind = "status" /\ r.status = 404 THEN finish(EmptyPayload)
           ELSE IF attempt < max_retries - 1 THEN sleep
           ELSE finish(EmptyPayload)
    /\ UNCHANGED <<loop_time, upstream>>

\* asyncio.sleep(2 ** attempt) is over: the loop goes to its next attempt,
\* or ends when this was the last one.
BackoffDone ==
    /\ call.pc = "backoff"
    /\ loop_time' = loop_time + call.waits[Len(call.waits)]
    /\ IF call.attempt + 1 < max_retries
       THEN /\ call' = [call EXCEPT !.pc = "request", !.attempt = @ + 1]
            /\ UNCHANGED <<cache, returned>>
       ELSE Return(analyze_except(_parse_response(EmptyPayload),
                                  RugCheckDefault("Analysis failed")),
                   call.responses, call.waits, loop_time')
    /\ UNCHANGED upstream

\* _fetch_dexscreener_data of the liquidity and of the holder analyzer
_fetch_dexscreener_data(r) == IF GotJson(r) THEN r.body ELSE EmptyDex

\* LiquidityAnalyzer.analyze from the fetch on
LiquidityResponse(r) ==
    /\ call.pc = "request"
    /\ call.analyzer = "liquidity"
    /\ r \in upstream.dexscreener
    /\ Return(analyze_except(_parse_liquidity_data(_fetch_dexscreener_data(r),
                                                   call.token_data),
                             LiquidityZero),
              <<r>>, <<>>, loop_time)
    /\ UNCHANGED <<loop_time, upstream>>

\* HolderAnalyzer.analyze from the fetch on
HolderResponse(r) ==
    /\ call.pc = "request"
    /\ call.analyzer = "holders"
    /\ r \in upstream.dexscreener
    /\ Return(analyze_except(_analyze_holders(_fetch_dexscreener_data(r),
                                              call.token_data),
                             HolderDefault),
              <<r>>, <<>>, loop_time)
    /\ UNCHANGED <<loop_time, upstream>>

\* Time of the event loop passes.
LoopTick(d) ==
    /\ loop_time + d <= MaxTime
    /\ loop_time' = loop_time + d
    /\ UNCHANGED <<cache, call, returned, upstream>>

RugReports ==
    { RugPayload("report", <<>>, TRUE, TRUE, <<5, 5>>,
                 <<[lpLockedPct |-> 100, lpBurnPct |-> 0]>>),
      RugPayload("report",
                 <<Risk("danger", "Honeypot detected"),
                   Risk("warning", "Mint authority enabled"),
                   Risk("info", "Low liquidity")>>,
                 FALSE, TRUE, <<40, 20, 10>>, <<[lpLockedPct |-> 0, lpBurnPct |-> 0]>>) }

RugMalformed == RugPayload("malformed", <<>>, FALSE, FALSE, <<>>, <<>>)

RugResponses ==
    { Response("status", 200, b) : b \in RugReports \cup {EmptyPayload, RugMalformed} }
    \cup { Response("status", st, EmptyPayload) : st \in {404, 429, 500} }
    \cup { Response(k, 0, EmptyPayload) : k \in {"timeout", "error"} }

DexBodies ==
    { DexPayload("pairs", 60000, 100, 0, 300), DexPayload("pairs", 8000, 0, 0, 0 - 1),
      DexPayload("no_pairs", 0, 0, 0, 0 - 1), DexPayload("malformed", 0, 0, 0, 0 - 1),
      DexPayload("scalar", 0, 0, 0, 0 - 1), EmptyDex }

DexResponses ==
    { Response("status", 200, b) : b \in DexBodies }
    \cup { Response("status", st, EmptyDex) : st \in {404, 429, 500} }
    \cup { Response(k, 0, EmptyDex) : k \in {"timeout", "error"} }

Observations == {NoObservation, Observation(25000, 0, 0), Observation(25000, 120, 4)}

\* The analyzers as their constructors leave them, what the two upstream
\* sources may answer in this run and how many analyze calls the run makes.
AnalyzersNew(rug_responses, dex_responses, calls) ==
    /\ cache = [a \in Analyzers |-> [addr \in Addresses |-> NoEntry]]
    /\ loop_time = 0
    /\ upstream = [rugcheck |-> rug_responses, dexscreener |-> dex_responses,
                   calls |-> calls]
    /\ call = IdleCall
    /\ returned = NoReturn

AnalyzersOff == AnalyzersNew({}, {}, 0)

(***************************************************************************)
(* The runs                                                                *)
(***************************************************************************)
\* What a run can deliver: the tokens of a scan with the reports of their
\* analyzers (cases); whether an analyze call returns its report or raises an
\* exception that the gather turns into None, and whether the database
\* fails at the save (faults, drawn for each of the three calls and for the
\* save); whether a token is malformed, that is, carries None in a
\* numeric field (a scanner dict with the key present and no value), on
\* which calculate_score raises TypeError.
Items(cases, faults, malformed) ==
    [cases |-> cases, faults |-> faults, malformed |-> malformed]

(***************************************************************************)
(* DexScreenerScanner                                                      *)
(***************************************************************************)
max_requests_per_minute == 300

\* asyncio.sleep(60 - elapsed) and the steps the clock of the window is
\* watched in: seconds since request_window_start, 60 standing for "a
\* minute or more".
WindowAges == {0, 30, 60}

\* _parse_pair_data, the fields the filters read
Pair(address, liquidity_usd, age_seconds, market_cap, price_change_5min, volume_24h) ==
    [address |-> address, liquidity_usd |-> liquidity_usd, age_seconds |-> age_seconds,
     market_cap |-> market_cap, price_change_5min |-> price_change_5min,
     volume_24h |-> volume_24h]

\* apply_prefilters under the values of _get_scanner_config
apply_prefilters(token_data) ==
    /\ ~(token_data.liquidity_usd < 10000)
    /\ ~(token_data.liquidity_usd > 300000)
    /\ ~(token_data.age_seconds > 0 /\ token_data.age_seconds > 300)
    /\ ~(token_data.market_cap > 500000)

_has_momentum(token_data) ==
    \/ token_data.price_change_5min >= 40
    \/ token_data.volume_24h > 50000

Emits_seen_unchecked(op, token_data, seen_tokens) ==
    IF op = "scan_new_pairs" THEN apply_prefilters(token_data)
    ELSE _has_momentum(token_data)

\* The loop body of scan_new_pairs and of scan_trending: is this pair
\* appended to the detected tokens?
Emits(op, token_data, seen_tokens) ==
    IF op = "scan_new_pairs"
    THEN token_data.address \notin seen_tokens /\ apply_prefilters(token_data)
    ELSE _has_momentum(token_data) /\ token_data.address \notin seen_tokens

\* The loop over data['pairs'] of one scan: the addresses it returns, in
\* order, and seen_tokens after it.
RECURSIVE ScanPairs(_, _, _, _)
ScanPairs(pairs, op, seen_tokens, detected_tokens) ==
    IF pairs = <<>>
    THEN [seen_tokens |-> seen_tokens, returned |-> detected_tokens]
    ELSE IF Emits(op, Head(pairs), seen_tokens)
         THEN ScanPairs(Tail(pairs), op, seen_tokens \cup {Head(pairs).address},
                        Append(detected_tokens, Head(pairs).address))
         ELSE ScanPairs(Tail(pairs), op, seen_tokens, detected_tokens)

\* _check_rate_limit: request_count and the age of the window after it
_check_rate_limit(request_count, elapsed) ==
    IF elapsed >= 60
    THEN [request_count |-> 0, window_age |-> 0]
    ELSE IF request_count >= max_requests_per_minute
         THEN [request_count |-> 0, window_age |-> 0]
         ELSE [request_count |-> request_count, window_age |-> elapsed]

ScanOps == {"scan_new_pairs", "scan_trending", "get_token_info"}

\* DexScreenerScanner.__init__
Range(seq) == {seq[i] : i \in DOMAIN seq}

\* How often the scans so far returned this address (2 standing for "more
\* than once").
Emitted(emitted, detected) ==
    [addr \in Addresses |->
        Min(2, emitted[addr] + Cardinality({i \in DOMAIN detected : detected[i] = addr}))]

\* The addresses of this answer that the filter of the scan turned down
\* while they were not in seen_tokens, and those it skipped as seen that
\* the filter would have let through.
Rejected(pairs, op, seen_tokens, detected) ==
    {pairs[i].address : i \in DOMAIN pairs} \ (seen_tokens \cup Range(detected))

Skipped(pairs, op, seen_tokens) ==
    {pairs[i].address : i \in {j \in DOMAIN pairs :
        /\ pairs[j].address \in seen_tokens
        /\ Emits_seen_unchecked(op, pairs[j], seen_tokens)}}

\* DexScreenerScanner.__init__; emitted, rejected and skipped record what
\* the scans did so far.
ScannerNew ==
    [request_count |-> 0, window_age |-> 0, seen_tokens |-> {}, pc |-> "idle",
     op |-> "none", attempt |-> 0, returned |-> <<>>,
     emitted |-> [addr \in Addresses |-> 0], rejected |-> {}, skipped |-> {}]

\* What DexScreener answers in this run, and the requests the run makes
\* within one window.
ScanRun(responses, requests) == [responses |-> responses, requests |-> requests]

\* scan_new_pairs, scan_trending or get_token_info up to the first request
\* of _fetch_with_retry.
ScanStart(op) ==
    /\ scanner.pc = "idle"
    /\ scanner.request_count < batch.requests
    /\ LET checked == _check_rate_limit(scanner.request_count, scanner.window_age)
       IN scanner' = [scanner EXCEPT !.request_count = checked.request_count,
                                     !.window_age = checked.window_age,
                                     !.pc = "fetching", !.op = op, !.attempt = 0,
                                     !.returned = <<>>]
    /\ UNCHANGED <<orch_vars, score_vars, an_vars, loop_vars>>

\* The operation returns: get_token_info hands back the first pair and
\* leaves seen_tokens alone, the scans run their loop over the pairs.
ScanReturn(count, pairs) ==
    LET scanned == ScanPairs(pairs, scanner.op, scanner.seen_tokens, <<>>)
    IN IF scanner.op = "get_token_info"
       THEN scanner' = [scanner EXCEPT !.request_count = count, !.pc = "idle"]
       ELSE scanner' = [scanner EXCEPT
                !.request_count = count,
                !.pc = "idle",
                !.seen_tokens = scanned.seen_tokens,
                !.returned = scanned.returned,
                !.emitted = Emitted(@, scanned.returned),
                !.rejected = @ \cup Rejected(pairs, scanner.op, scanner.seen_tokens,
                                             scanned.returned),
                !.skipped = @ \cup Skipped(pairs, scanner.op, scanner.seen_tokens)]

\* One request of _fetch_with_retry is answered, times out or fails.
ScanResponse(r) ==
    /\ scanner.pc = "fetching"
    /\ UNCHANGED <<orch_vars, score_vars, an_vars, loop_vars>>
    /\ IF r.kind = "status"
       THEN IF r.status = 200
            THEN ScanReturn(scanner.request_count + 1, r.body)
            ELSE IF r.status = 429 /\ scanner.attempt + 1 < max_retries
                 THEN scanner' = [scanner EXCEPT !.request_count = @ + 1,
                                                 !.attempt = @ + 1]
                 ELSE ScanReturn(scanner.request_count + 1, <<>>)
       ELSE IF scanner.attempt + 1 < max_retries
            THEN scanner' = [scanner EXCEPT !.attempt = @ + 1]
            ELSE ScanReturn(scanner.request_count, <<>>)

\* The wall clock moves on.
ScanTick ==
    /\ \E age \in WindowAges :
           /\ age > scanner.window_age
           /\ scanner' = [scanner EXCEPT !.window_age = age]
    /\ UNCHANGED <<orch_vars, score_vars, an_vars, loop_vars>>

\* Orchestrator.__init__, and start() up to its first scan cycle
InitOrchestrator(configs, items) ==
    /\ config \in configs
    /\ batch = items
    /\ telegram_bot \in BOOLEAN
    /\ max_alerts_per_day = get_nested(config, <<"alerts", "max_alerts_per_day", "15">>)
    /\ min_alert_score = get_nested(config, <<"alerts", "min_score", "70">>)
    /\ rule_weight = get_nested(config, <<"machine_learning", "rule_weight", "0.6">>)
    /\ ml_weight = get_nested(config, <<"machine_learning", "ml_weight", "0.4">>)
    /\ alerts_sent_today = 0
    /\ total_alerts_sent = 0
    /\ total_tokens_analyzed = 0
    /\ today = 0
    /\ last_alert_reset = 0
    /\ pc = [p \in Tasks |-> "idle"]
    /\ job = [p \in Tasks |-> NoJob]
    /\ dispatched = 0
    /\ resets = [d \in Days |-> 0]
    /\ last_check = 0
    /\ completed = NoCompleted
    /\ loop_pc = "scanning"
    /\ signal = "none"
    /\ scanner = ScannerNew

ScoreIdle ==
    /\ sc_pc = "off"
    /\ sc_in = 0
    /\ sc_out = ScoreRaised

Init == InitOrchestrator(Configs, Items(Cases, BOOLEAN, BOOLEAN)) /\ ScoreIdle /\ AnalyzersOff

\* The sequential loop of _scan_cycle: one process_token at a time.
Next ==
    \/ StartToken(1) /\ UNCHANGED <<score_vars, an_vars, loop_vars, scan_vars>>
    \/ \E a \in Analyzers : AnalyzerDone(1, a) /\ UNCHANGED <<score_vars, an_vars, loop_vars, scan_vars>>
    \/ AnalyzersDone(1) /\ UNCHANGED <<score_vars, an_vars, loop_vars, scan_vars>>
    \/ SaveDone(1) /\ UNCHANGED <<score_vars, an_vars, loop_vars, scan_vars>>
    \/ SendDone(1) /\ UNCHANGED <<score_vars, an_vars, loop_vars, scan_vars>>
    \/ Tick /\ UNCHANGED <<score_vars, an_vars, loop_vars, scan_vars>>

Spec == Init /\ [][Next]_vars

\* process_token coroutines of several tokens scheduled together on one
\* orchestrator, interleaving where they are suspended.
NextConc ==
    \/ \E p \in Tasks : StartToken(p) /\ UNCHANGED <<score_vars, an_vars, loop_vars, scan_vars>>
    \/ \E p \in Tasks, a \in Analyzers : AnalyzerDone(p, a) /\ UNCHANGED <<score_vars, an_vars, loop_vars, scan_vars>>
    \/ \E p \in Tasks : AnalyzersDone(p) /\ UNCHANGED <<score_vars, an_vars, loop_vars, scan_vars>>
    \/ \E p \in Tasks : SaveDone(p) /\ UNCHANGED <<score_vars, an_vars, loop_vars, scan_vars>>
    \/ \E p \in Tasks : SendDone(p) /\ UNCHANGED <<score_vars, an_vars, loop_vars, scan_vars>>
    \/ Tick /\ UNCHANGED <<score_vars, an_vars, loop_vars, scan_vars>>

\* The case whose score passes the threshold, every analyzer answering.
AlertCase == CHOOSE c \in Cases : c.token.age_seconds = 60

InitConc ==
    /\ InitOrchestrator({ConfigEmpty} \cup {ConfigKeyed(cap, PyNone) : cap \in 1..MaxCap},
                        Items({AlertCase}, {FALSE}, {FALSE}))
    /\ ScoreIdle
    /\ AnalyzersOff

SpecConc == InitConc /\ [][NextConc]_vars

(***************************************************************************)
(* ScoringEngine.calculate_score called directly                           *)
(***************************************************************************)
\* volume_change_2min, price_change_5min, price_change_1h, volume_24h
MarketMoods == {<<0, -5, 0, 0>>, <<100, 20, 50, 60000>>, <<300, 40, 100, 200000>>}

ScoreTokens ==
    {Token(liq, age, mood[1], mood[2], mood[3], mood[4]) :
        liq \in {5000, 30000, 400000}, age \in {60, 200, 1000, 4000},
        mood \in MarketMoods}

ScoreRugs ==
    {NoRug, Rug(90, TRUE, TRUE, 24, FALSE, TRUE, FALSE),
     Rug(90, TRUE, TRUE, 25, FALSE, TRUE, FALSE)} \cup
    {Rug(score, auth, auth, top10, FALSE, burned, honeypot) :
        score \in {50, 85, 95}, auth \in BOOLEAN, top10 \in {10, 60},
        burned \in BOOLEAN, honeypot \in BOOLEAN}

ScoreLiqs == {NoLiq, Liq(0, 0, 0), Liq(30000, 60, 39), Liq(30000, 60, 40), Liq(50000, 100, 100)}

ScoreHolds == {NoHold, Hold(10, 60, 0), Hold(60, 30, 12), Hold(200, 10, 20)}

\* ml_score, ml_confidence and the engine's two weights (None when the
\* orchestrator built the engine from an ordinary configuration).
MLSetting(score, confidence, rw, mw) ==
    [ml_score |-> score, ml_confidence |-> confidence, rule_weight |-> rw, ml_weight |-> mw]

MLSettings ==
    {MLSetting(ml[1], ml[2], w[1], w[2]) :
        ml \in {<<0, 0>>, <<0, 75>>, <<0 - Pt(10), 75>>, <<Pt(80), 30>>,
                <<Pt(80), 75>>, <<Pt(150), 90>>},
        w \in {<<PyNum(60), PyNum(40)>>, <<PyNum(100), PyNum(100)>>}}
    \cup {MLSetting(0, 0, PyNone, PyNone), MLSetting(Pt(80), 75, PyNone, PyNone)}

ScoreInputs ==
    [token : ScoreTokens, rugcheck : ScoreRugs, liquidity : ScoreLiqs,
     holders : ScoreHolds, ml : MLSettings]

InitScore ==
    /\ InitOrchestrator({ConfigEmpty}, {})
    /\ telegram_bot = FALSE
    /\ sc_pc = "call"
    /\ sc_in \in ScoreInputs
    /\ sc_out = ScoreRaised
    /\ AnalyzersOff

ScoreCall ==
    /\ sc_pc = "call"
    /\ sc_out' = calculate_score(sc_in.token, sc_in.rugcheck, sc_in.liquidity,
                                 sc_in.holders, sc_in.ml.ml_score,
                                 sc_in.ml.ml_confidence, sc_in.ml.rule_weight,
                                 sc_in.ml.ml_weight)
    /\ sc_pc' = "returned"
    /\ UNCHANGED <<sc_in, orch_vars, an_vars, loop_vars, scan_vars>>

NextScore == ScoreCall

SpecScore == InitScore /\ [][NextScore]_vars

(***************************************************************************)
(* Direct calls of the Pattern Detector and of the two risk functions      *)
(***************************************************************************)
\* The labels of ScoringResult.category / pattern.
Categories ==
    {"FAST_SNIPER", "SMART_SNIPER", "MOMENTUM", "SAFE", "WHALE_ACCUMULATION", "UNKNOWN"}

\* Arguments of detect_pattern, and a category and security component for
\* get_risk_level and _determine_risk_level.
PatternInputs ==
    [token : ScoreTokens, rugcheck : ScoreRugs, liquidity : ScoreLiqs,
     holders : ScoreHolds, category : Categories, security_score : {0, 700, 900}]

InitPattern ==
    /\ InitOrchestrator({ConfigEmpty}, {})
    /\ telegram_bot = FALSE
    /\ AnalyzersOff
    /\ sc_pc = "call"
    /\ sc_in \in PatternInputs
    /\ sc_out = [pattern |-> "UNKNOWN", pattern_risk |-> "HIGH", scoring_risk |-> "HIGH"]

PatternCall ==
    /\ sc_pc = "call"
    /\ sc_out' = [pattern |-> detect_pattern(sc_in.token, sc_in.rugcheck,
                                             sc_in.liquidity, sc_in.holders),
                  pattern_risk |-> get_risk_level(sc_in.category, sc_in.rugcheck),
                  scoring_risk |-> _determine_risk_level(sc_in.category, sc_in.rugcheck,
                                                         sc_in.security_score)]
    /\ sc_pc' = "returned"
    /\ UNCHANGED <<sc_in, orch_vars, an_vars, loop_vars, scan_vars>>

NextPattern == PatternCall

SpecPattern == InitPattern /\ [][NextPattern]_vars

InitAnalyzers ==
    /\ InitOrchestrator({ConfigEmpty}, {})
    /\ telegram_bot = FALSE
    /\ ScoreIdle
    /\ AnalyzersNew(RugResponses, DexResponses, MaxCalls)

NextAnalyzers ==
    \/ \E a \in Analyzers, addr \in Addresses, td \in Observations :
           AnalyzeCall(a, addr, td) /\ UNCHANGED <<orch_vars, score_vars, loop_vars, scan_vars>>
    \/ \E r \in RugResponses : RugResponse(r) /\ UNCHANGED <<orch_vars, score_vars, loop_vars, scan_vars>>
    \/ BackoffDone /\ UNCHANGED <<orch_vars, score_vars, loop_vars, scan_vars>>
    \/ \E r \in DexResponses : LiquidityResponse(r) /\ UNCHANGED <<orch_vars, score_vars, loop_vars, scan_vars>>
    \/ \E r \in DexResponses : HolderResponse(r) /\ UNCHANGED <<orch_vars, score_vars, loop_vars, scan_vars>>

SpecAnalyzers == InitAnalyzers /\ [][NextAnalyzers]_vars

\* Runs of several analyze calls with time passing between them: a source
\* that answers, one that is down, and one that answers what the parser
\* rejects.
CacheRugResponses ==
    { Response("status", 200, CHOOSE b \in RugReports : b.risks = <<>>),
      Response("status", 200, RugMalformed),
      Response("status", 404, EmptyPayload), Response("status", 429, EmptyPayload) }

CacheDexResponses ==
    { Response("status", 200, DexPayload("pairs", 60000, 100, 0, 300)),
      Response("status", 200, DexPayload("scalar", 0, 0, 0, 0 - 1)),
      Response("timeout", 0, EmptyDex) }

TickSteps == {cache_ttl - 1, cache_ttl, cache_ttl + 1}

InitCache ==
    /\ InitOrchestrator({ConfigEmpty}, {})
    /\ telegram_bot = FALSE
    /\ ScoreIdle
    /\ AnalyzersNew(CacheRugResponses, CacheDexResponses, MaxCalls + 2)

NextCache ==
    \/ \E a \in Analyzers, addr \in Addresses :
           AnalyzeCall(a, addr, IF a = "rugcheck" THEN NoObservation
                                ELSE Observation(25000, 120, 4))
           /\ UNCHANGED <<orch_vars, score_vars, loop_vars, scan_vars>>
    \/ \E r \in CacheRugResponses : RugResponse(r) /\ UNCHANGED <<orch_vars, score_vars, loop_vars, scan_vars>>
    \/ BackoffDone /\ UNCHANGED <<orch_vars, score_vars, loop_vars, scan_vars>>
    \/ \E r \in CacheDexResponses : LiquidityResponse(r) /\ UNCHANGED <<orch_vars, score_vars, loop_vars, scan_vars>>
    \/ \E r \in CacheDexResponses : HolderResponse(r) /\ UNCHANGED <<orch_vars, score_vars, loop_vars, scan_vars>>
    \/ \E d \in TickSteps : LoopTick(d) /\ UNCHANGED <<orch_vars, score_vars, loop_vars, scan_vars>>

SpecCache == InitCache /\ [][NextCache]_vars

(***************************************************************************)
(* MessageFormatter.escape_html called directly                            *)
(***************************************************************************)
\* A string is a sequence of characters.
RECURSIVE Replace(_, _, _)
\* str.replace(old, new) for a one-character old: every occurrence, left to
\* right.
Replace(text, old, new) ==
    IF text = <<>> THEN <<>>
    ELSE (IF Head(text) = old THEN new ELSE <<Head(text)>>)
         \o Replace(Tail(text), old, new)

\* Mutant: '&' is replaced last.
escape_html_amp_last(text) ==
    Replace(Replace(Replace(text, "<", <<"&", "l", "t", ";">>),
                    ">", <<"&", "g", "t", ";">>),
            "&", <<"&", "a", "m", "p", ";">>)

escape_html(text) ==
    Replace(Replace(Replace(text, "&", <<"&", "a", "m", "p", ";">>),
                    "<", <<"&", "l", "t", ";">>),
            ">", <<"&", "g", "t", ";">>)

\* The characters of the strings handed to escape_html, and the strings
\* of up to MaxLen characters.
Chars == {"&", "<", ">", "a", "m", "p", ";"}

Texts == UNION {[1..n -> Chars] : n \in 0..MaxLen}

InitEscape ==
    /\ InitOrchestrator({ConfigEmpty}, {})
    /\ telegram_bot = FALSE
    /\ AnalyzersOff
    /\ sc_pc = "call"
    /\ sc_in \in Texts
    /\ sc_out = <<>>

EscapeCall ==
    /\ sc_pc = "call"
    /\ sc_out' = escape_html(sc_in)
    /\ sc_pc' = "returned"
    /\ UNCHANGED <<sc_in, orch_vars, an_vars, loop_vars, scan_vars>>

NextEscape == EscapeCall

SpecEscape == InitEscape /\ [][NextEscape]_vars

(***************************************************************************)
(* The DexScreener scanner on its own: any sequence of scan_new_pairs,     *)
(* scan_trending and get_token_info calls against the DexScreener API.     *)
(***************************************************************************)
\* A pair that passes the pre-filters and shows no momentum, and one the
\* pre-filters reject (thin liquidity) that is moving.
PairKinds ==
    { Pair(addr, 30000, 60, 100000, 0, 0) : addr \in Addresses }
    \cup { Pair(addr, 5000, 600, 100000, 50, 0) : addr \in Addresses }

PairLists == UNION { [1..n -> PairKinds] : n \in 0..MaxPairs }

ScanFailures ==
    { Response("status", st, <<>>) : st \in {429, 500} }
    \cup { Response(k, 0, <<>>) : k \in {"timeout", "error"} }

\* Runs that exhaust the rate-limit window: the answers carry no pairs.
InitScanRate ==
    /\ InitOrchestrator({ConfigEmpty},
                        ScanRun({Response("status", 200, <<>>)} \cup ScanFailures,
                                max_requests_per_minute + max_retries))
    /\ telegram_bot = FALSE
    /\ ScoreIdle
    /\ AnalyzersOff

\* Runs of a few requests per window whose answers carry pairs.
InitScanner ==
    /\ InitOrchestrator({ConfigEmpty},
                        ScanRun({Response("status", 200, b) : b \in PairLists}
                                \cup ScanFailures, MaxRequests))
    /\ telegram_bot = FALSE
    /\ ScoreIdle
    /\ AnalyzersOff

NextScanner ==
    \/ \E op \in ScanOps : ScanStart(op)
    \/ \E r \in batch.responses : ScanResponse(r)
    \/ ScanTick

SpecScanRate == InitScanRate /\ [][NextScanner]_vars

SpecScanner == InitScanner /\ [][NextScanner]_vars



(***************************************************************************)
(* Properties of the orchestrator (Spec, SpecConc)                         *)
(***************************************************************************)
\* C1: while tokens are processed one at a time, the number of alerts counted
\* for the current UTC day never exceeds the configured daily limit; when no
\* numeric limit was read from the configuration nothing is ever counted.
C1_DailyCapRespected ==
    /\ max_alerts_per_day.t = "num" => alerts_sent_today <= max_alerts_per_day.v
    /\ max_alerts_per_day.t # "num" => alerts_sent_today = 0

\* C1 witness: the limit is reached and a token whose score passes the
\* threshold has just been refused.
C1_CapReachedAndRefused ==
    /\ max_alerts_per_day.t = "num"
    /\ max_alerts_per_day.v = MaxCap
    /\ alerts_sent_today = MaxCap
    /\ min_alert_score.t = "num"
    /\ completed.admit = "false"
    /\ completed.score_combined >= Pt(min_alert_score.v)

\* C2: every evaluation of the admission predicate returns true when the four
\* conditions hold together (counter below the limit, combined score at or
\* above the threshold, ML confidence zero or at least the configured
\* minimum, category not switched off) and returns false otherwise.
C2_ShouldAlertIsTheConjunction ==
    [][pc[1] = "saving" /\ pc'[1] # "saving" =>
         LET counter == IF today > last_alert_reset THEN 0 ELSE alerts_sent_today
             sr == job[1].scoring
             conf_min == get_nested(config, <<"alerts", "min_ml_confidence", "0.65">>)
             cats == get_nested(config, <<"alerts", "categories">>)
             below_cap == /\ max_alerts_per_day.t = "num"
                          /\ counter < max_alerts_per_day.v
             score_ok == /\ min_alert_score.t = "num"
                         /\ sr.score_combined >= Pt(min_alert_score.v)
             ml_ok == \/ sr.ml_confidence = 0
                      \/ conf_min.t = "num" /\ sr.ml_confidence >= conf_min.v
             category_ok == \/ cats.t # "dict"
                            \/ DOMAIN cats.m = {}
                            \/ Lower(sr.category) \notin DOMAIN cats.m
                            \/ Truthy(cats.m[Lower(sr.category)])
             outcome == IF pc'[1] = "sending" THEN job'[1].admit ELSE completed'.admit
         IN  outcome = IF below_cap /\ score_ok /\ ml_ok /\ category_ok
                       THEN "true" ELSE "false"]_vars

\* C3: the daily counter is reset at most once for a UTC date, only at an
\* admission check made on a date later than the date of the last reset (and
\* at every such check), so never again during the date of the last reset;
\* the counter falls only through such a reset.
C3_ResetOncePerDateAdvance ==
    /\ [](\A d \in Days : resets[d] <= 1)
    /\ [](last_check <= last_alert_reset)
    /\ [][resets' # resets =>
            /\ today > last_alert_reset
            /\ resets' = [resets EXCEPT ![today] = 1]
            /\ last_alert_reset' >= today]_vars
    /\ [][(\E p \in Tasks : pc[p] = "saving" /\ pc'[p] # "saving")
          /\ today > last_alert_reset => resets' # resets]_vars
    /\ [][alerts_sent_today' < alerts_sent_today => resets' # resets]_vars

\* C3 witness: an alert was counted on the first day, the counter was reset
\* on the next day and one alert has been counted since.
C3_ResetThenCounted ==
    /\ resets[1] = 1
    /\ last_alert_reset = 1
    /\ today = 1
    /\ total_alerts_sent = 2
    /\ alerts_sent_today = 1

\* C4: once process_token has run pattern detection, category, pattern and
\* risk_level of the ScoringResult - the one the admission predicate reads -
\* are those the Pattern Detector computes for the token.
C4_PatternDetectorOverridesAll ==
    \A p \in Tasks :
        pc[p] \in {"saving", "sending"} =>
            LET pattern == detect_pattern(job[p].token, job[p].rugcheck,
                                          job[p].liquidity, job[p].holders)
            IN  /\ job[p].scoring.category = pattern
                /\ job[p].scoring.pattern = pattern
                /\ job[p].scoring.risk_level = get_risk_level(pattern, job[p].rugcheck)

\* C5: a token the admission predicate accepted had exactly one notification
\* dispatched and moved alerts_sent_today and total_alerts_sent by one each;
\* a token it did not accept had none dispatched and moved neither counter.
\* Every dispatched notification is counted once its delivery has returned.
C5_AdmissionFramesTheEffects ==
    /\ completed.admit = "true" =>
          completed.sent = 1 /\ completed.d_today = 1 /\ completed.d_total = 1
    /\ completed.admit \in {"false", "raise"} =>
          completed.sent = 0 /\ completed.d_today = 0 /\ completed.d_total = 0
    /\ dispatched = total_alerts_sent + Cardinality({p \in Tasks : pc[p] = "sending"})

\* C5 witness: an accepted token completed after a Telegram delivery.
C5_AcceptedAndCounted ==
    /\ telegram_bot
    /\ completed.admit = "true"
    /\ completed.d_total = 1
    /\ total_alerts_sent >= 1

C7_MLGate ==
    sc_pc = "returned" =>
        /\ sc_in.ml.ml_score <= 0 \/ sc_in.ml.ml_confidence < 50 =>
              /\ ~sc_out.raised
              /\ sc_out.score_combined = sc_out.score_rules
              /\ sc_out.score_ml = 0
              /\ sc_out.ml_confidence = 0
        /\ ~sc_out.raised /\ sc_out.ml_confidence > 0 =>
              sc_out.ml_confidence >= 50 /\ sc_out.score_ml > 0

\* C7 witness: a positive ML score with confidence 0.30 was discarded.
C7_LowConfidenceDiscarded ==
    /\ sc_pc = "returned"
    /\ sc_in.ml.ml_score > 0
    /\ sc_in.ml.ml_confidence = 30
    /\ ~sc_out.raised
    /\ sc_out.score_ml = 0
    /\ sc_out.score_combined = sc_out.score_rules

\* C8: the combined score calculate_score returns lies in [0, 100] for every
\* input and every configured pair of weights, the ML-fused branch included.
C8_CombinedScoreInRange ==
    sc_pc = "returned" /\ ~sc_out.raised =>
        sc_out.score_combined >= 0 /\ sc_out.score_combined <= Pt(100)

\* C9: each of the six component scores lies in [0, 1] and the rule score,
\* their weighted sum times 100, lies in [0, 100].
C9_ComponentsAndRuleScoreInRange ==
    sc_pc = "returned" /\ ~sc_out.raised =>
        /\ \A c \in {sc_out.security_score, sc_out.liquidity_score,
                     sc_out.holder_score, sc_out.momentum_score,
                     sc_out.social_score, sc_out.age_score} : c >= 0 /\ c <= 1000
        /\ sc_out.score_rules >= 0 /\ sc_out.score_rules <= Pt(100)
        /\ sc_out.score_rules =
              (30 * sc_out.security_score + 20 * sc_out.liquidity_score
               + 15 * sc_out.holder_score + 20 * sc_out.momentum_score
               + 10 * sc_out.social_score + 5 * sc_out.age_score) * 100

\* C9 witness: the bonuses of a clean RugCheck report exceed 1 and the
\* security score returned is 1.
C9_SecurityClamped ==
    /\ sc_pc = "returned"
    /\ ~sc_out.raised
    /\ sc_in.rugcheck.present
    /\ SecurityRaw(sc_in.rugcheck) > 1000
    /\ sc_out.security_score = 1000

\* C10 as stated: when the RugCheck report flags a honeypot, the risk level
\* calculate_score returns is HIGH whatever the category.
C10_HoneypotAlwaysHigh ==
    sc_pc = "returned" /\ ~sc_out.raised
    /\ sc_in.rugcheck.present /\ sc_in.rugcheck.is_honeypot =>
        sc_out.risk_level = "HIGH"

\* C10 amended: when the RugCheck report flags a honeypot, the risk level
\* calculate_score returns is HIGH unless the category is SAFE, and LOW when
\* the category is SAFE (which the fallback banding assigns below 60).
C10_HoneypotHighUnlessSafe ==
    sc_pc = "returned" /\ ~sc_out.raised
    /\ sc_in.rugcheck.present /\ sc_in.rugcheck.is_honeypot =>
        /\ sc_out.category # "SAFE" => sc_out.risk_level = "HIGH"
        /\ sc_out.category = "SAFE" => sc_out.risk_level = "LOW"

\* C10 witness: a honeypot outside the SAFE category is rated HIGH.
C10_HoneypotRatedHigh ==
    /\ sc_pc = "returned"
    /\ ~sc_out.raised
    /\ sc_in.rugcheck.present
    /\ sc_in.rugcheck.is_honeypot
    /\ sc_out.category # "SAFE"
    /\ sc_out.risk_level = "HIGH"

(***************************************************************************)
(* Properties of the Pattern Detector and the risk functions (SpecPattern) *)
(***************************************************************************)
\* C11: for the category SAFE both risk functions, _determine_risk_level of
\* the Scoring Engine and get_risk_level of the Pattern Detector, return LOW,
\* whatever the security report (or none) and the security component.
C11_SafeIsAlwaysLow ==
    sc_pc = "returned" /\ sc_in.category = "SAFE" =>
        sc_out.scoring_risk = "LOW" /\ sc_out.pattern_risk = "LOW"

\* C11 witness: SAFE with a honeypot report and security component 0 was
\* rated LOW by both functions.
C11_SafeHoneypotRatedLow ==
    /\ sc_pc = "returned"
    /\ sc_in.category = "SAFE"
    /\ sc_in.rugcheck.present
    /\ sc_in.rugcheck.is_honeypot
    /\ sc_in.security_score = 0
    /\ sc_out.scoring_risk = "LOW"
    /\ sc_out.pattern_risk = "LOW"

\* C12: detect_pattern returns the first of FAST_SNIPER, SMART_SNIPER,
\* MOMENTUM, SAFE, WHALE_ACCUMULATION whose predicate holds, UNKNOWN when none
\* holds; a token that satisfies the FAST_SNIPER predicate resolves to
\* FAST_SNIPER whatever later predicate it also satisfies, and the result is
\* one of the six labels.
C12_FirstMatchWins ==
    sc_pc = "returned" =>
        LET order == <<"FAST_SNIPER", "SMART_SNIPER", "MOMENTUM", "SAFE",
                       "WHALE_ACCUMULATION">>
            holds == <<_is_fast_sniper(sc_in.token, sc_in.liquidity, sc_in.holders),
                       _is_smart_sniper(sc_in.token, sc_in.rugcheck, sc_in.liquidity),
                       _is_momentum(sc_in.token, sc_in.holders),
                       _is_safe(sc_in.rugcheck, sc_in.liquidity),
                       _is_whale_accumulation(sc_in.token, sc_in.holders)>>
            matching == {i \in 1..5 : holds[i]}
        IN  /\ sc_out.pattern \in Categories
            /\ matching = {} => sc_out.pattern = "UNKNOWN"
            /\ matching # {} =>
                  \E i \in matching :
                      /\ \A j \in matching : i <= j
                      /\ sc_out.pattern = order[i]
            /\ holds[1] => sc_out.pattern = "FAST_SNIPER"

\* C12 witness: a token satisfying the FAST_SNIPER and the SAFE predicate
\* resolved to FAST_SNIPER.
C12_FastSniperBeforeSafe ==
    /\ sc_pc = "returned"
    /\ _is_fast_sniper(sc_in.token, sc_in.liquidity, sc_in.holders)
    /\ _is_safe(sc_in.rugcheck, sc_in.liquidity)
    /\ sc_out.pattern = "FAST_SNIPER"

\* The main loop around the token pipeline of one task, with stop signals
InitLoop ==
    /\ InitOrchestrator({ConfigEmpty, ConfigKeyed(MaxCap, PyNone)},
                        Items({AlertCase}, {FALSE}, BOOLEAN))
    /\ ScoreIdle
    /\ AnalyzersOff

Pipeline ==
    /\ loop_pc = "scanning"
    /\ \/ StartToken(1)
       \/ \E a \in Analyzers : AnalyzerDone(1, a)
       \/ AnalyzersDone(1)
       \/ SaveDone(1)
       \/ SendDone(1)
    /\ UNCHANGED <<score_vars, an_vars, loop_vars, scan_vars>>

NextLoop ==
    \/ Pipeline
    \/ ScanCycleReturns
    \/ ScanCycleRaises
    \/ WaitDone
    \/ CooldownDone
    \/ \E sig \in {"KeyboardInterrupt", "CancelledError"} : Interrupt(sig)

SpecLoop == InitLoop /\ [][NextLoop]_vars

\* The event loop resumes a coroutine whose sleep is over.
SpecLoopFair == SpecLoop /\ WF_vars(WaitDone) /\ WF_vars(CooldownDone)

\* The last analyze call went to the source and its fetch brought no JSON
\* (a non-200 status, a timeout or a transport error on its last request).
FetchFailed ==
    /\ returned.calls > 0
    /\ ~returned.cached
    /\ (returned.responses = <<>>
        \/ ~GotJson(returned.responses[Len(returned.responses)]))

\* The last analyze call fetched a body that the parser cannot read.
ParseFailed ==
    /\ returned.calls > 0
    /\ ~returned.cached
    /\ returned.responses # <<>>
    /\ GotJson(returned.responses[Len(returned.responses)])
    /\ returned.responses[Len(returned.responses)].body.kind \in {"malformed", "scalar"}

IsSecurityDefault(r) ==
    /\ r.overall_score = 50
    /\ ~r.mint_authority_frozen /\ ~r.freeze_authority_revoked
    /\ r.top_10_holders_percent = 100
    /\ ~r.lp_locked /\ ~r.lp_burned
    /\ Len(r.known_risks) = 1
    /\ r.known_risks[1] \in {"No data available", "Parse error", "Analysis failed"}

\* C13 as stated: analyze never raises, and after any fetch or parse failure
\* it returns the default report: security 5.0 / flags false / top-10 100 /
\* LP flags false / one diagnostic string; liquidity all-zero with stability
\* 0; holder 0 holders, concentration 100, distribution score 0.
C13_DefaultOnAnyFailure ==
    (FetchFailed \/ ParseFailed) =>
        /\ ~returned.raised
        /\ returned.analyzer = "rugcheck" => IsSecurityDefault(returned.result)
        /\ returned.analyzer = "liquidity" =>
               /\ returned.result.total_liquidity_usd = 0
               /\ returned.result.lp_locked_percent = 0
               /\ returned.result.lp_burned_percent = 0
               /\ returned.result.liquidity_stability_score = 0
        /\ returned.analyzer = "holders" =>
               /\ returned.result.total_holders = 0
               /\ returned.result.top_10_concentration = 100
               /\ returned.result.distribution_score = 0

\* C13 amended: analyze never raises; after a fetch or parse failure the
\* security analyzer returns its default report (5.0, flags false, top-10
\* 100, LP flags false, one diagnostic string); the liquidity analyzer
\* returns, after a failed fetch, the observation's liquidity with no lock,
\* no burn and stability 50 when a token observation was supplied and the
\* all-zero report with stability 0 otherwise, and after a parse failure the
\* all-zero report; the holder analyzer returns the observation's holder
\* count and growth rate (0 without observation), both concentrations 100,
\* dev wallet 0 and the distribution score computed from these, which is
\* between 20 and 60 and 20 below 20 holders.
C13_NeverRaisesDegradedReport ==
    /\ ~returned.raised
    /\ (FetchFailed \/ ParseFailed) =>
        /\ returned.analyzer = "rugcheck" => IsSecurityDefault(returned.result)
        /\ returned.analyzer = "liquidity" =>
               /\ returned.result.lp_locked_percent = 0
               /\ returned.result.lp_burned_percent = 0
               /\ IF FetchFailed /\ returned.token_data.given
                  THEN /\ returned.result.total_liquidity_usd =
                              returned.token_data.liquidity_usd
                       /\ returned.result.liquidity_stability_score = 500
                  ELSE /\ returned.result.total_liquidity_usd = 0
                       /\ returned.result.liquidity_stability_score = 0
        /\ returned.analyzer = "holders" =>
               /\ returned.result.total_holders =
                      (IF returned.token_data.given THEN returned.token_data.holders ELSE 0)
               /\ returned.result.growth_rate_per_min =
                      (IF returned.token_data.given
                       THEN returned.token_data.holder_growth_rate ELSE 0)
               /\ returned.result.top_10_concentration = 100
               /\ returned.result.top_20_concentration = 100
               /\ returned.result.dev_wallet_percent = 0
               /\ returned.result.distribution_score \in 20..60
               /\ returned.result.total_holders < 20 =>
                      returned.result.distribution_score = 20

\* The liquidity fetch timed out and the report carries the observation.
C13_LiquidityFallsBackToObservation ==
    /\ FetchFailed
    /\ returned.analyzer = "liquidity"
    /\ returned.token_data.given
    /\ returned.result.total_liquidity_usd = 25000
    /\ returned.result.liquidity_stability_score = 500

\* C14: the security analyzer's fetch makes at most max_retries requests; a
\* 200 or a 404 ends it at once; a 429, another status, a timeout or a
\* transport error is followed by a wait of 2^attempt and another request
\* only while attempts remain; exhausted, it returns empty data.
C14_BoundedRetryWithBackoff ==
    /\ call.analyzer = "rugcheck" /\ call.pc # "idle" =>
           /\ call.attempt < max_retries
           /\ Len(call.responses) <= max_retries
           /\ \A i \in DOMAIN call.responses :
                  /\ ~GotJson(call.responses[i])
                  /\ call.responses[i].status # 404
           /\ \A i \in DOMAIN call.waits : call.waits[i] = 2 ^ (i - 1)
    /\ call.analyzer = "rugcheck" /\ call.pc = "backoff" =>
           call.attempt < max_retries - 1
    /\ returned.calls > 0 /\ returned.analyzer = "rugcheck" /\ ~returned.cached =>
           /\ Len(returned.responses) \in 1..max_retries
           /\ Len(returned.waits) < max_retries
           /\ FetchFailed => returned.result = RugCheckDefault("No data available")

\* A timeout, a rate limit or a network error
Transient(r) == r.kind \in {"timeout", "error"} \/ (r.kind = "status" /\ r.status = 429)

\* C15: in each of the three analyzers a transient failure of the fetch is
\* retried after a backoff wait before the analyzer degrades: a call whose
\* first request failed transiently has waited and made a second request.
C15_TransientFailureRetried ==
    /\ returned.calls > 0
    /\ ~returned.cached
    /\ Transient(returned.responses[1])
    => /\ Len(returned.responses) >= 2
       /\ Len(returned.waits) >= 1

\* The step in which an analyze call returns
AnalyzeReturns == returned'.calls = returned.calls + 1

\* The entry the returning call found under its address, and its age then
FoundEntry == cache[returned'.analyzer][returned'.token_address]

FoundAge == returned'.called_at - FoundEntry.time

OthersUntouched ==
    \A a \in Analyzers, addr \in Addresses :
        (a # returned'.analyzer \/ addr # returned'.token_address) =>
            cache'[a][addr] = cache[a][addr]

\* C16 as stated: a call that finds an entry of its address younger than 30
\* returns it without a fetch; an entry aged 30 or more is ignored, a fetch
\* is made and its result replaces the entry with a new timestamp; no
\* entry of another address is returned or altered, and nothing but a
\* returning call changes a cache.
C16_CacheTTL ==
    [][/\ AnalyzeReturns /\ FoundEntry.stored /\ FoundAge < 30 =>
              /\ returned'.result = FoundEntry.data
              /\ returned'.responses = <<>>
              /\ cache' = cache
       /\ AnalyzeReturns /\ FoundEntry.stored /\ FoundAge >= 30 =>
              /\ Len(returned'.responses) >= 1
              /\ cache'[returned'.analyzer][returned'.token_address] =
                     Entry(returned'.result, returned'.returned_at)
              /\ returned'.returned_at >= returned'.called_at
       /\ AnalyzeReturns => OthersUntouched
       /\ cache' # cache => AnalyzeReturns]_vars

\* The expired entry was refetched into a body that made analyze's own
\* exception handler build the report.
HandlerBuiltReport ==
    /\ returned'.analyzer = "liquidity"
    /\ returned'.responses # <<>>
    /\ GotJson(returned'.responses[Len(returned'.responses)])
    /\ returned'.responses[Len(returned'.responses)].body.kind = "scalar"

\* C16 amended: as C16, except that the report which analyze's own
\* exception handler builds after a failed refetch is returned without
\* replacing the expired entry, which stays as it was.
C16_CacheTTLUnlessHandler ==
    [][/\ AnalyzeReturns /\ FoundEntry.stored /\ FoundAge < 30 =>
              /\ returned'.result = FoundEntry.data
              /\ returned'.responses = <<>>
              /\ cache' = cache
       /\ AnalyzeReturns /\ FoundEntry.stored /\ FoundAge >= 30 =>
              /\ Len(returned'.responses) >= 1
              /\ returned'.returned_at >= returned'.called_at
              /\ IF HandlerBuiltReport
                 THEN cache' = cache
                 ELSE cache'[returned'.analyzer][returned'.token_address] =
                         Entry(returned'.result, returned'.returned_at)
       /\ AnalyzeReturns => OthersUntouched
       /\ cache' # cache => AnalyzeReturns]_vars

\* An entry of age 30 was refetched and replaced, and the next call for the
\* address got the new entry from the cache.
C16_ExpiredEntryReplaced ==
    /\ returned.calls = 3
    /\ returned.cached
    /\ returned.called_at = cache_ttl
    /\ cache[returned.analyzer][returned.token_address].time = cache_ttl
    /\ returned.result = cache[returned.analyzer][returned.token_address].data

\* C17: scoring and pattern detection of a token start only when each of its
\* three analyzer calls has returned or raised; an analyzer that raised is
\* replaced by an absent report for that analyzer only, the reports of the
\* others are kept, and the pipeline goes on to scoring.
C17_FanInThenScoring ==
    [][\A p \in Tasks :
          pc[p] = "analyzing" /\ pc'[p] # "analyzing" =>
              /\ \A a \in Analyzers : job[p].gathered[a] \in {"returned", "raised"}
              /\ pc'[p] = "saving" \/ (pc'[p] = "idle" /\ job'[p] = NoJob)
              /\ pc'[p] = "saving" => ~job'[p].scoring.raised
              /\ pc'[p] = "saving" => \E c \in Cases :
                     /\ c.token = job[p].token
                     /\ job'[p].rugcheck =
                            (IF job[p].gathered["rugcheck"] = "raised"
                             THEN NoRug ELSE c.rugcheck)
                     /\ job'[p].liquidity =
                            (IF job[p].gathered["liquidity"] = "raised"
                             THEN NoLiq ELSE c.liquidity)
                     /\ job'[p].holders =
                            (IF job[p].gathered["holders"] = "raised"
                             THEN NoHold ELSE c.holders)]_vars

\* The security analyzer raised, the other two returned, and the token was
\* scored with their two reports.
C17_OneAnalyzerAbsent ==
    /\ pc[1] = "saving"
    /\ job[1].gathered["rugcheck"] = "raised"
    /\ ~job[1].rugcheck.present
    /\ job[1].liquidity.present
    /\ job[1].holders.present
    /\ ~job[1].scoring.raised

\* The step in which process_token of task p ends in its exception handler:
\* calculate_score raised, or _should_alert raised.
TokenFails(p) ==
    \/ pc[p] = "analyzing" /\ pc'[p] = "idle"
    \/ pc[p] = "saving" /\ pc'[p] = "idle" /\ completed'.admit = "raise"

\* C18: an exception in one token's pipeline is caught at the per-token
\* boundary: the alert counters and the dispatches are as before the token,
\* process_token returns to the loop of _scan_cycle, which counts the token
\* and stays in its cycle, free to take the next token.
C18_TokenFailureContained ==
    [][\A p \in Tasks :
          TokenFails(p) =>
              /\ alerts_sent_today' = alerts_sent_today
              /\ total_alerts_sent' = total_alerts_sent
              /\ dispatched' = dispatched
              /\ completed'.sent = 0
              /\ total_tokens_analyzed' = total_tokens_analyzed + 1
              /\ pc'[p] = "idle" /\ job'[p] = NoJob
              /\ loop_pc' = "scanning"
              /\ batch' = batch]_vars

\* The first token of the scan failed in _should_alert and the second is
\* in its pipeline.
C18_NextTokenAfterFailure ==
    /\ total_tokens_analyzed = 1
    /\ completed.admit = "raise"
    /\ pc[1] = "saving"
    /\ loop_pc = "scanning"

\* C19: an exception of a scan cycle never ends the main loop: the loop goes
\* to its cooldown sleep, from which another scan cycle eventually starts
\* (as it does from the sleep between two scans), and the loop is left only
\* when an external stop signal has been delivered.
C19_LoopSurvivesErrors ==
    /\ [][loop_pc = "scanning" /\ signal' = "none" =>
              loop_pc' \in {"scanning", "waiting", "cooldown"}]_vars
    /\ [](loop_pc \in {"stopped", "cancelled"} => signal # "none")
    /\ [](loop_pc \in {"cooldown", "waiting"} =>
              <>(loop_pc = "scanning" \/ signal # "none"))

\* A scan cycle that had processed a token raised, and the loop is in its
\* cooldown sleep.
C19_CooldownAfterFailedCycle ==
    /\ loop_pc = "cooldown"
    /\ signal = "none"
    /\ total_tokens_analyzed = 1

\* C20: when an external stop signal has ended the loop, whatever the await
\* point a per-token pipeline was suspended at, the lifetime counter counts
\* exactly the notification dispatches that were carried out, the daily
\* counter counts those since its last reset, and no dispatch is left
\* without its count.
C20_StopKeepsCountersExact ==
    loop_pc \in {"stopped", "cancelled"} =>
        /\ total_alerts_sent = dispatched
        /\ alerts_sent_today <= dispatched

\* C21: with one or more analyzer reports absent, calculate_score returns a
\* ScoringResult and does not raise; the security component is exactly 0.5
\* when the security report is absent and the holder component exactly 0.5
\* when the holder report is absent, the liquidity, momentum, social and age
\* components are those computed from the token alone, and the combined
\* score lies in [0, 100].
C21_AbsentInputsNeverFail ==
    (/\ sc_pc = "returned"
     /\ (~sc_in.rugcheck.present \/ ~sc_in.liquidity.present \/ ~sc_in.holders.present)) =>
        /\ ~sc_out.raised
        /\ ~sc_in.rugcheck.present => sc_out.security_score = 500
        /\ ~sc_in.holders.present => sc_out.holder_score = 500
        /\ ~sc_in.liquidity.present =>
               sc_out.liquidity_score = _calculate_liquidity_score(NoLiq, sc_in.token)
        /\ sc_out.momentum_score = _calculate_momentum_score(sc_in.token)
        /\ sc_out.social_score = _calculate_social_score(sc_in.token)
        /\ sc_out.age_score = _calculate_age_score(sc_in.token)
        /\ sc_out.score_combined >= 0 /\ sc_out.score_combined <= Pt(100)

EntityOf(ch) ==
    CASE ch = "&" -> <<"&", "a", "m", "p", ";">>
      [] ch = "<" -> <<"&", "l", "t", ";">>
      [] ch = ">" -> <<"&", "g", "t", ";">>
      [] OTHER -> <<ch>>

RECURSIVE CharByChar(_)
CharByChar(text) ==
    IF text = <<>> THEN <<>> ELSE EntityOf(Head(text)) \o CharByChar(Tail(text))

\* text has the characters of part from position i on
StartsAt(text, i, part) ==
    /\ i + Len(part) - 1 <= Len(text)
    /\ \A k \in 1..Len(part) : text[i + k - 1] = part[k]

\* C23: escape_html replaces every '&', '<' and '>' of its input by its
\* entity and nothing else, each character once (the entities it introduces
\* are not escaped again); the output holds no '<' and no '>', every '&' of
\* the output starts one of the three entities, and a text without the
\* three characters is returned unchanged.
C23_EscapeHtml ==
    sc_pc = "returned" =>
        /\ sc_out = CharByChar(sc_in)
        /\ \A i \in DOMAIN sc_out :
              /\ sc_out[i] \notin {"<", ">"}
              /\ sc_out[i] = "&" =>
                    \E ch \in {"&", "<", ">"} : StartsAt(sc_out, i, EntityOf(ch))
        /\ (\A i \in DOMAIN sc_in : sc_in[i] \notin {"&", "<", ">"}) => sc_out = sc_in

\* The input '&amp;' came out as '&amp;amp;'.
C23_EntityEscapedOnceMore ==
    /\ sc_pc = "returned"
    /\ sc_in = <<"&", "a", "m", "p", ";">>
    /\ sc_out = <<"&", "a", "m", "p", ";", "a", "m", "p", ";">>

(***************************************************************************)
(* Properties of the order of the per-token pipeline (Spec)                *)
(***************************************************************************)
\* The order the steps of a token are to happen in
PipelineSteps ==
    <<"analyzers", "scoring", "pattern", "overwrite", "persist", "admission", "notify">>

IsPrefix(s, t) == Len(s) <= Len(t) /\ \A i \in 1..Len(s) : s[i] = t[i]

\* C24: the steps of every token happen in the order analyzers, scoring,
\* pattern detection and overwrite, persistence, admission check,
\* notification; a token whose analysis was built has had its persistence
\* attempted once before its admission check, admitted or not; and when the
\* save returns, failed or not, the admission check runs on the scoring
\* result and an admitted token has its notification dispatched.
C24_PipelineOrder ==
    /\ [](/\ IsPrefix(completed.steps, PipelineSteps)
          /\ \A p \in Tasks : IsPrefix(job[p].steps, PipelineSteps))
    /\ [](completed.admit \in {"false", "raise"} =>
              completed.steps = SubSeq(PipelineSteps, 1, 6))
    /\ [](completed.admit = "true" => completed.steps = PipelineSteps)
    /\ [][\A p \in Tasks :
              pc[p] = "saving" /\ pc'[p] # "saving" =>
                  LET reset == ResetNeeded(today, last_alert_reset)
                      counter == IF reset THEN 0 ELSE alerts_sent_today
                      outcome == IF pc'[p] = "sending" THEN job'[p].admit
                                 ELSE completed'.admit
                      steps == IF pc'[p] = "sending" THEN job'[p].steps
                               ELSE completed'.steps
                  IN  /\ outcome = _should_alert(counter, job[p].scoring)
                      /\ steps[5] = "persist" /\ steps[6] = "admission"
                      /\ outcome = "true" =>
                             dispatched' = dispatched + 1 /\ steps[7] = "notify"]_vars

\* The save of a token failed, and the token was admitted and its
\* notification dispatched.
C24_AlertAfterFailedSave ==
    /\ pc[1] = "sending"
    /\ job[1].saved = "logged"
    /\ job[1].admit = "true"
    /\ job[1].steps = PipelineSteps
    /\ dispatched = 1


\* C25: the scanner never issues more than max_requests_per_minute requests
\* within one rate-limit window, retries included: request_count never
\* exceeds the limit between two resets of the window.
C25_RateLimitEnforced == scanner.request_count <= max_requests_per_minute


\* C26: the scanner emits each address at most once over its lifetime, and
\* seen_tokens holds exactly the addresses emitted so far: an address the
\* pre-filters or the momentum check turned down is not in it and can
\* still be emitted by a later scan.
C26_EmittedAtMostOnce ==
    /\ \A addr \in Addresses :
           /\ scanner.emitted[addr] <= 1
           /\ addr \in scanner.seen_tokens <=> scanner.emitted[addr] = 1
    /\ \A i, j \in DOMAIN scanner.returned :
           i # j => scanner.returned[i] # scanner.returned[j]

\* An address turned down by one scan was emitted by a later one, and an
\* address already emitted came back in a later answer and was skipped.
C26_RejectedThenEmittedOnce ==
    /\ scanner.pc = "idle"
    /\ \E addr \in scanner.rejected : scanner.emitted[addr] = 1
    /\ scanner.skipped # {}
    /\ scanner.seen_tokens = Addresses


\* C27: the daily cap counts dispatch attempts, not deliveries: whenever
\* send_alert returns, with a delivery, with a failed delivery or at once
\* for want of a channel, alerts_sent_today and total_alerts_sent each grow
\* by one; they stay as they are only when the await of send_alert is left
\* by an exception (the cancellation of the task).
C27_CapCountsDispatchAttempts ==
    /\ [][(pc[1] = "sending" /\ pc'[1] = "idle") =>
            IF signal' # signal
            THEN /\ alerts_sent_today' = alerts_sent_today
                 /\ total_alerts_sent' = total_alerts_sent
            ELSE /\ completed'.delivered \in {"true", "false"}
                 /\ alerts_sent_today' = alerts_sent_today + 1
                 /\ total_alerts_sent' = total_alerts_sent + 1]_vars
    /\ [][(pc[1] = "saving" /\ dispatched' = dispatched + 1 /\ pc'[1] = "idle") =>
            /\ completed'.delivered = "false"
            /\ completed'.d_today = 1
            /\ total_alerts_sent' = total_alerts_sent + 1]_vars
    /\ [](completed.sent = 1 => completed.d_today = 1 /\ completed.d_total = 1)

\* A Telegram bot is configured, its delivery failed, and the alert was
\* counted.
C27_FailedDeliveryCounted ==
    /\ telegram_bot
    /\ completed.delivered = "false"
    /\ completed.sent = 1
    /\ alerts_sent_today = 1
    /\ total_alerts_sent = 1


\* C28: a degraded result is cached like a successful one.  When the fetch
\* of the security or the liquidity analyzer brings no data, the report
\* built from the empty payload is stored under the address with the time
\* of the return; a call that finds an entry younger than 30 returns it
\* without a fetch, whatever report it holds; and a call that went to the
\* source leaves the cache as it was only when analyze's own exception
\* handler built the report.
C28_DegradedResultCached ==
    [][AnalyzeReturns =>
         /\ (returned'.analyzer \in {"rugcheck", "liquidity"} /\ FetchFailed') =>
                cache'[returned'.analyzer][returned'.token_address] =
                    Entry(returned'.result, returned'.returned_at)
         /\ (FoundEntry.stored /\ FoundAge < 30) =>
                /\ returned'.cached
                /\ returned'.result = FoundEntry.data
                /\ returned'.responses = <<>>
         /\ ~returned'.cached => (cache' = cache <=> HandlerBuiltReport)]_vars

\* The security source was down, the "No data available" report was
\* cached, and a call 29 time-units later got it from the cache.
C28_DegradedServedFromCache ==
    /\ returned.cached
    /\ returned.analyzer = "rugcheck"
    /\ IsSecurityDefault(returned.result)
    /\ returned.result.known_risks = <<"No data available">>
    /\ returned.called_at - cache["rugcheck"][returned.token_address].time = cache_ttl - 1


\* The min_ml_confidence test of _should_alert turns this result down (or
\* raises on a threshold that is no number).
MLGateRejects(scoring_result) ==
    LET min_ml_confidence == get_nested(config, <<"alerts", "min_ml_confidence", "0.65">>)
    IN  /\ scoring_result.ml_confidence > 0
        /\ (min_ml_confidence.t # "num"
            \/ scoring_result.ml_confidence < min_ml_confidence.v)

\* C29: the ML predictor always fails (MLPredictor defines no predict) and
\* the failure degrades to score 0 / confidence 0 without ending the
\* pipeline: every ScoringResult process_token produces has score_ml = 0,
\* ml_confidence = 0 and score_combined = score_rules, and the
\* ML-confidence test of the admission never turns a token down.
C29_MLAlwaysDegraded ==
    \A p \in Tasks :
        pc[p] \in {"saving", "sending"} =>
            /\ ~job[p].scoring.raised
            /\ job[p].scoring.score_ml = 0
            /\ job[p].scoring.ml_confidence = 0
            /\ job[p].scoring.score_combined = job[p].scoring.score_rules
            /\ ~MLGateRejects(job[p].scoring)

\* Machine learning is enabled in the configuration, the weights are
\* numbers, and the token was scored by its rules alone and admitted.
C29_EnabledMLScoredByRules ==
    /\ Truthy(get_nested(config, <<"machine_learning", "enabled", "True">>))
    /\ rule_weight.t = "num"
    /\ pc[1] = "sending"
    /\ job[1].admit = "true"
    /\ job[1].scoring.score_rules > 0
    /\ job[1].scoring.score_combined = job[1].scoring.score_rules


\* C30: a token whose security report has the honeypot flag set never holds
\* a final risk_level of LOW after the Pattern Detector's overwrite.
C30_HoneypotNeverLow ==
    \A p \in Tasks :
        (/\ pc[p] \in {"saving", "sending"}
         /\ job[p].rugcheck.present
         /\ job[p].rugcheck.is_honeypot) =>
            job[p].scoring.risk_level # "LOW"

============================================================================
